---- MODULE Spec2Model ----
(***************************************************************************)
(* A model of the element-location and interaction layer of the news       *)
(* scraper: webdriver_util/webdrv_util.py (wait_for, find_it, find_element,*)
(* find_elements, find_fuzzy, retry, select_option, click_elm,             *)
(* slow_send_keys, ...) and tasks_methods/methods.py (the steps            *)
(* inicial_search, fine_search and collect_articles of ScraperMethods, and *)
(* read_csv_create_work_item of ProducerMethods).                          *)
(*                                                                         *)
(* The program is single-threaded; it is modelled as one sequential        *)
(* process with a program counter pc.  A nested call keeps its own frame   *)
(* (wf, fe, ...) and returns through rv.  Time is counted in hundredths of *)
(* a second, so that the 0.25 s poll interval is the integer 25.           *)
(***************************************************************************)
EXTENDS Integers, Sequences, FiniteSets, TLC

VARIABLES
    op,     \* the top-level call under analysis and its arguments
    pc,     \* position of the process
    wf,     \* frame of wait_for
    fe,     \* frame of find_element / find_elements
    ff,     \* frame of find_fuzzy
    fs,     \* frame of fine_search
    so,     \* frame of select_option
    rt,     \* frame of retry
    ck,     \* frame of click_elm
    ca,     \* frame of collect_articles
    ini,    \* frame of inicial_search
    sk,     \* frame of slow_send_keys
    rc,     \* frame of read_csv_create_work_item
    rv      \* the value (or fault) handed back by the call that just ended

vars == <<op, pc, wf, fe, ff, fs, so, rt, ck, ca, ini, sk, rc, rv>>

(***************************************************************************)
(* Bounds of the model.                                                    *)
(***************************************************************************)
MaxTimeoutTicks == 3    \* top-level wait_for timeouts are 0 .. 3 poll intervals
MaxSelectors == 2       \* longest Selector list handed to find_element(s)
MaxCand == 3            \* longest candidate list handed to find_fuzzy
MaxSpans == 2           \* most <span> labels the filter menu renders
MaxAttempts == 3        \* largest attempt budget handed to retry
MaxResults == 3         \* largest number of articles asked of collect_articles
MaxRows == 2            \* most result rows a page renders
MaxPages == 2           \* pages of results the browser can be taken through
MaxIters == 3           \* rounds of the while loop of collect_articles followed

(***************************************************************************)
(* Program constants.                                                      *)
(***************************************************************************)
TIMEOUT == 500          \* TIMEOUT = 5 (seconds), in hundredths
Delta == 25             \* delta = 0.25 (seconds), in hundredths

(***************************************************************************)
(* Python values.  Every value is a record [tag, items], so that values of *)
(* different Python types can be compared.                                 *)
(***************************************************************************)
None == [tag |-> "None", items |-> <<>>]
PyList(s) == [tag |-> "list", items |-> s]
PyTuple(s) == [tag |-> "tuple", items |-> s]
Elem(e) == [tag |-> "elem", items |-> <<e>>]
PyFalse == [tag |-> "bool", items |-> <<>>]
PyTrue == [tag |-> "bool", items |-> <<"True">>]
PyStr(s) == [tag |-> "str", items |-> s]

\* Python truth value testing (`if res:`): None, False and empty containers
\* are false, every other object (a WebElement among them) is true.
Truthy(v) ==
    CASE v.tag = "None" -> FALSE
      [] v.tag = "elem" -> TRUE
      [] OTHER -> Len(v.items) > 0

\* The outcome of a call: a returned value or a raised fault.
\* `m` is the list of matching elements the driver reported, when the value
\* comes from a lookup (empty otherwise).
Ret(v) == [kind |-> "ret", val |-> v, exc |-> "-", m |-> <<>>]
RetM(v, m) == [kind |-> "ret", val |-> v, exc |-> "-", m |-> m]
Raise(e) == [kind |-> "raise", val |-> None, exc |-> e, m |-> <<>>]

\* The selenium faults the except clauses list by name, WebDriverException
\* (their base class), and builtin faults.  All derive from Exception.
ListedFaults ==
    {"ElementClickInterceptedException", "ElementNotInteractableException",
     "JavascriptException", "NoSuchElementException", "TimeoutException"}
Faults ==
    ListedFaults \cup {"WebDriverException", "AttributeError", "TypeError", "IndexError"}

Idle == [active |-> FALSE]
(***************************************************************************)
(* The browser.  A lookup yields the list of elements that match, in       *)
(* document order, or raises a fault.                                      *)
(***************************************************************************)
MatchLists == {<<>>, <<"e1">>, <<"e1", "e2">>}
NonEmptyMatchLists == MatchLists \ {<<>>}
LookupFaults == {"TimeoutException", "NoSuchElementException", "WebDriverException"}

\* The texts the <span> labels of the filter menu can show.
SpanPool == {<<" ">>, <<"a">>, <<"A", "b">>}

\* Selector: which of its fields are set (a non-empty string or tuple).
Sel(x, c, t, a) == [xpath |-> x, css |-> c, text |-> t, attr |-> a]

\* Mutant: css alone is tested before the other fields.
Dispatch_CssFirst(sel) ==
    IF sel.css THEN "css"
    ELSE IF sel.xpath THEN "xpath"
    ELSE "none"

\* The strategy find_element / find_elements run for a Selector: the if/elif
\* chain on selector.xpath, selector.css and selector.attr, selector.css and
\* selector.text, selector.css.
Dispatch(sel) ==
    IF sel.xpath THEN "xpath"
    ELSE IF sel.css /\ sel.attr THEN "attr"
    ELSE IF sel.css /\ sel.text THEN "text"
    ELSE IF sel.css THEN "css"
    ELSE "none"

\* get() of find_it: the first of the results, None when there is none.
FindItGet(results) ==
    IF Len(results) > 0 THEN RetM(Elem(results[1]), results) ELSE RetM(None, results)

\* What one call of the probe that find_it hands to wait_for can yield.
\*  css : find_css: WebDriverWait.until(visibility_of_any_elements_located)
\*        yields a non-empty list or raises.
\*  text: find_css_with_text: the same list filtered by text, possibly empty.
\*  attr: find_with_attribute: find_all_with_attribute filters by attribute;
\*        it swallows every fault and returns None, and len(None) in get()
\*        then raises TypeError.
DriverProbe(strategy, plural) ==
    CASE strategy = "css" ->
            {FindItGet(m) : m \in NonEmptyMatchLists} \cup {Raise(e) : e \in LookupFaults}
      [] strategy = "text" ->
            {FindItGet(m) : m \in MatchLists} \cup {Raise(e) : e \in LookupFaults}
      [] strategy = "attr" ->
            {FindItGet(m) : m \in MatchLists} \cup {Raise("TypeError")}
      [] OTHER -> {}

\* What one call of the probe that click_elm hands to find_it can yield:
\* WebDriverWait(driver, timeout).until(element_to_be_clickable(elm)) gives
\* the element or raises (at once, with TypeError, when elm is None); get()
\* of find_it takes it out of the list.
ClickableProbe(elm) ==
    IF elm = "none" THEN {Raise("TypeError")}
    ELSE {FindItGet(<<elm>>)}
            \cup {Raise(e) : e \in {"TimeoutException", "WebDriverException"}}

(***************************************************************************)
(* wait_for(fun, timeout, label): the polling engine.                      *)
(***************************************************************************)
\* A scripted probe, for a call of wait_for itself: its k-th call raises
\* when k = raiseAt, yields `value` from its presentAt-th call on, and
\* yields the (false) value `absent` before.  0 stands for "never".
ScriptedProbe(p, k) ==
    IF p.raiseAt = k THEN Raise(p.exc)
    ELSE IF p.presentAt > 0 /\ k >= p.presentAt THEN Ret(p.value)
    ELSE Ret(p.absent)

\* What the k-th call of fun() can yield.
ProbeOutcomes(k) ==
    IF op.name = "wait_for" THEN {ScriptedProbe(op.probe, k)}
    ELSE IF wf.caller = "ck_found" THEN ClickableProbe(ck.elm)
    ELSE DriverProbe(fe.strategy, fe.plural)

\* Mutant: the loop bound off by one.
WaitForLoopCond_Inclusive(t, timeout) == t <= timeout

\* `while t < timeout`
WaitForLoopCond(t, timeout) == t < timeout

\* Mutant: `if res is not None:` instead of the truth test.
WaitForFound_NotNone(res) == res.tag # "None"

\* `if res:` after fun() in the loop
WaitForFound(res) == Truthy(res)

\* Mutant: the final `except Exception` clause is missing.
WaitForExcept_NoCatchAll(o) ==
    IF o.kind = "raise" /\ (o.exc \in ListedFaults \/ o.exc = "WebDriverException")
    THEN Ret(None)
    ELSE o

\* The except clauses of wait_for: the listed selenium faults, then
\* WebDriverException, then Exception; each logs and returns None.
WaitForExcept(o) ==
    IF o.kind = "raise"
       /\ (o.exc \in ListedFaults \/ o.exc = "WebDriverException" \/ o.exc \in Faults)
    THEN Ret(None)
    ELSE o

\* wait_for is entered: t = 0.
WaitForFrame(timeout, caller) ==
    [active |-> TRUE, timeout |-> timeout, t |-> 0, calls |-> 0, sleeps |-> 0,
     caller |-> caller]

\* One iteration of the loop: fun() is called; a true result is returned at
\* once, a false one is followed by sleep(delta) and t = t + delta, a fault
\* goes to the except clauses.
WaitForPoll ==
    /\ pc = "wait_for"
    /\ WaitForLoopCond(wf.t, wf.timeout)
    /\ \E o \in ProbeOutcomes(wf.calls + 1) :
         IF o.kind = "raise" \/ WaitForFound(o.val)
         THEN /\ wf' = [wf EXCEPT !.calls = @ + 1, !.active = FALSE]
              /\ rv' = WaitForExcept(o)
              /\ pc' = wf.caller
         ELSE /\ wf' = [wf EXCEPT !.calls = @ + 1, !.sleeps = @ + 1, !.t = @ + Delta]
              /\ rv' = rv
              /\ pc' = pc
    /\ UNCHANGED <<op, rc, ini, sk, so, rt, ck, ca, fe, ff, fs>>

\* `return fun()` after the loop: the last-chance probe.
WaitForFinal ==
    /\ pc = "wait_for"
    /\ ~WaitForLoopCond(wf.t, wf.timeout)
    /\ \E o \in ProbeOutcomes(wf.calls + 1) :
         /\ wf' = [wf EXCEPT !.calls = @ + 1, !.active = FALSE]
         /\ rv' = WaitForExcept(o)
         /\ pc' = wf.caller
    /\ UNCHANGED <<op, rc, ini, sk, so, rt, ck, ca, fe, ff, fs>>

(***************************************************************************)
(* Specification of a call wait_for(probe, timeout).  Timeouts are whole   *)
(* numbers of poll intervals (every whole number of seconds is one), and   *)
(* the module default TIMEOUT.                                             *)
(***************************************************************************)
Timeouts == {k * Delta : k \in 0..MaxTimeoutTicks} \cup {TIMEOUT}
ProbeCalls == 0..(MaxTimeoutTicks + 2)
Probes ==
    [presentAt : ProbeCalls, raiseAt : ProbeCalls, absent : {None, PyList(<<>>)},
     value : {Elem("e1")}, exc : {"TimeoutException", "WebDriverException", "TypeError"}]

InitWaitFor ==
    /\ op \in [name : {"wait_for"}, timeout : Timeouts, probe : Probes]
    /\ pc = "wait_for"
    /\ wf = WaitForFrame(op.timeout, "done")
    /\ fe = Idle
    /\ ff = Idle
    /\ fs = Idle
    /\ so = Idle
    /\ rt = Idle
    /\ ck = Idle
    /\ ca = Idle
    /\ ini = Idle
    /\ sk = Idle
    /\ rc = Idle
    /\ rv = Ret(None)

NextWaitFor == WaitForPoll \/ WaitForFinal

SpecWaitFor == InitWaitFor /\ [][NextWaitFor]_vars

WaitForDone == op.name = "wait_for" /\ pc = "done"

C2_PresentOnNthCallIsReturnedIffInBudget ==
    (WaitForDone /\ op.probe.presentAt >= 1
        /\ (op.probe.raiseAt = 0 \/ op.probe.raiseAt > op.probe.presentAt))
    => /\ (rv = Ret(op.probe.value))
            <=> (op.probe.presentAt * Delta <= op.timeout + Delta)
       /\ (rv = Ret(op.probe.value))
            => (wf.calls = op.probe.presentAt /\ wf.sleeps = op.probe.presentAt - 1)
       /\ (rv # Ret(op.probe.value)) => rv = Ret(op.probe.absent)

\* The value is found by the last-chance probe, after the loop has ended.
C2_Witness ==
    /\ WaitForDone
    /\ op.probe.presentAt = 3 /\ op.probe.raiseAt = 0
    /\ op.timeout = 2 * Delta
    /\ wf.t = op.timeout
    /\ wf.calls = 3 /\ wf.sleeps = 2
    /\ rv = Ret(op.probe.value)

\* C3: when the probe raises a fault on a call that wait_for makes (in the
\* loop or as the last-chance probe), that call is the last one, no fault
\* escapes wait_for and wait_for returns None.
C3_ProbeFaultStopsPollingAndYieldsNone ==
    (WaitForDone /\ op.probe.raiseAt >= 1
        /\ (op.probe.presentAt = 0 \/ op.probe.raiseAt <= op.probe.presentAt)
        /\ op.probe.raiseAt * Delta <= op.timeout + Delta)
    => /\ rv = Ret(None)
       /\ wf.calls = op.probe.raiseAt
       /\ wf.sleeps = op.probe.raiseAt - 1

\* A builtin fault raised by the last-chance probe, after absent (non-None)
\* polls that kept the loop going.
C3_Witness ==
    /\ WaitForDone
    /\ op.probe.raiseAt = 3 /\ op.probe.presentAt = 0
    /\ op.probe.exc = "TypeError"
    /\ op.probe.absent = PyList(<<>>)
    /\ op.timeout = 2 * Delta
    /\ wf.calls = 3
    /\ rv = Ret(None)

(***************************************************************************)
(* find_element / find_elements(driver, selectors, timeout): the element   *)
(* resolver.  fe.attempts records every lookup that was run: the index of  *)
(* the Selector, the strategy and what the lookup yielded.                 *)
(***************************************************************************)
\* The frame on entry.  A bare Selector is wrapped into a one-element list
\* (`if not isinstance(selectors, list): selectors = [selectors]`).
FindElementFrame(plural, selectors, timeout, caller) ==
    [active |-> TRUE, plural |-> plural, selectors |-> selectors, timeout |-> timeout,
     i |-> 1, strategy |-> "none", attempts |-> <<>>, caller |-> caller]

\* xpath: WebDriverWait(driver, timeout).until(presence_of_element_located)
\* in find_element, presence_of_all_elements_located in find_elements.
XPathOutcomes(plural) ==
    {RetM(IF plural THEN PyList(m) ELSE Elem(m[1]), m) : m \in NonEmptyMatchLists}
        \cup {Raise(e) : e \in LookupFaults}

\* find_all_css: driver.find_elements(By.CSS_SELECTOR, css), any fault
\* caught and turned into None.
FindAllCssOutcomes ==
    {RetM(PyList(m), m) : m \in MatchLists} \cup {Ret(None)}

\* Mutant: find_element hands the caller's timeout to the css helpers.
HelperTimeout_Callers(plural, timeout) == timeout

\* The timeout handed to find_with_attribute, find_css_with_text and
\* find_css: the module's TIMEOUT in find_element, the caller's timeout in
\* find_elements.
HelperTimeout(plural, timeout) == IF plural THEN timeout ELSE TIMEOUT

\* The except clauses of find_it and of find_with_attribute,
\* find_css_with_text, find_css: every Exception is logged and None returned.
HelperExcept(o) ==
    IF o.kind = "raise" /\ o.exc \in Faults THEN Ret(None) ELSE o

\* Mutant: find_element's handlers without the final `except Exception`.
FindElementOnFault_NoCatchAll(exc) ==
    IF exc \in {"NoSuchElementException", "TimeoutException"} THEN "continue"
    ELSE "escape"

\* find_element's handlers, inside the loop: NoSuchElementException,
\* TimeoutException and Exception are logged and the loop goes on.
FindElementOnFault(exc) ==
    IF exc \in {"NoSuchElementException", "TimeoutException"} \/ exc \in Faults
    THEN "continue"
    ELSE "escape"

\* Mutant: the inner handler of find_elements catches every fault.
FindElementsOnFault_InnerCatchAll(exc) ==
    IF exc \in Faults THEN "continue" ELSE "escape"

\* find_elements' handlers: the inner one continues on TimeoutException and
\* NoSuchElementException, the outer ones return None for anything else.
FindElementsOnFault(exc) ==
    IF exc \in {"TimeoutException", "NoSuchElementException"} THEN "continue"
    ELSE IF exc \in Faults THEN "return_none"
    ELSE "escape"

OnFault(plural, exc) ==
    IF plural THEN FindElementsOnFault(exc) ELSE FindElementOnFault(exc)

\* Mutant: the loop does not stop at the first Selector that matched.
FindElementHit_Never(elm) == FALSE

\* `if elm:` followed by `return elm`
FindElementHit(elm) == Truthy(elm)

\* What follows a lookup that yielded o: return the match, go on with the
\* next Selector, or leave through a handler.  The lookup is logged with
\* the time it was given to wait: WebDriverWait(driver, timeout) for xpath,
\* the timeout of the wait_for that has just ended for a helper.
FindElementSettle(strategy, o) ==
    LET wait == IF strategy # "xpath" /\ wf # Idle THEN wf.timeout ELSE fe.timeout
        entry == [sel |-> fe.i, strat |-> strategy, out |-> o, wait |-> wait]
        logged == [fe EXCEPT !.attempts = Append(@, entry), !.strategy = strategy]
        act == IF o.kind = "raise" THEN OnFault(fe.plural, o.exc)
               ELSE IF FindElementHit(o.val) THEN "return"
               ELSE "continue"
    IN  /\ wf' = Idle
        /\ CASE act = "continue" ->
                  /\ fe' = [logged EXCEPT !.i = @ + 1]
                  /\ pc' = "find_element"
                  /\ rv' = rv
             [] act = "return" ->
                  /\ fe' = [logged EXCEPT !.active = FALSE]
                  /\ pc' = fe.caller
                  /\ rv' = o
             [] act = "return_none" ->
                  /\ fe' = [logged EXCEPT !.active = FALSE]
                  /\ pc' = fe.caller
                  /\ rv' = Ret(None)
             [] OTHER ->
                  /\ fe' = [logged EXCEPT !.active = FALSE]
                  /\ pc' = fe.caller
                  /\ rv' = o

AtSelector == pc = "find_element" /\ fe.i <= Len(fe.selectors)

\* The loop is over: find_element falls off its end, find_elements executes
\* `return None`.
FindElementExhausted ==
    /\ pc = "find_element"
    /\ fe.i > Len(fe.selectors)
    /\ fe' = [fe EXCEPT !.active = FALSE]
    /\ pc' = fe.caller
    /\ rv' = Ret(None)
    /\ UNCHANGED <<op, rc, ini, sk, so, rt, ck, ca, wf, ff, fs>>

\* No branch of the if/elif chain applies: elm stays None.
FindElementNoStrategy ==
    /\ AtSelector
    /\ Dispatch(fe.selectors[fe.i]) = "none"
    /\ fe' = [fe EXCEPT !.i = @ + 1, !.strategy = "none"]
    /\ UNCHANGED <<op, rc, ini, sk, so, rt, ck, ca, pc, wf, ff, fs, rv>>

FindElementXPath ==
    /\ AtSelector
    /\ Dispatch(fe.selectors[fe.i]) = "xpath"
    /\ \E o \in XPathOutcomes(fe.plural) : FindElementSettle("xpath", o)
    /\ UNCHANGED <<op, rc, ini, sk, so, rt, ck, ca, ff, fs>>

\* css with attr, css with text, and (find_element only) css alone go
\* through find_it, which polls with wait_for.
FindElementCallHelper ==
    /\ AtSelector
    /\ LET s == Dispatch(fe.selectors[fe.i])
       IN  /\ s \in {"attr", "text"} \/ (s = "css" /\ ~fe.plural)
           /\ fe' = [fe EXCEPT !.strategy = s]
           /\ wf' = WaitForFrame(HelperTimeout(fe.plural, fe.timeout), "find_it")
           /\ pc' = "wait_for"
    /\ UNCHANGED <<op, rc, ini, sk, so, rt, ck, ca, ff, fs, rv>>

\* wait_for has returned to find_it, which returns to the helper, which
\* returns to find_element / find_elements.
FindItReturn ==
    /\ pc = "find_it"
    /\ FindElementSettle(fe.strategy, HelperExcept(HelperExcept(rv)))
    /\ UNCHANGED <<op, rc, ini, sk, so, rt, ck, ca, ff, fs>>

\* find_elements, css alone: find_all_css.
FindElementsAllCss ==
    /\ AtSelector
    /\ fe.plural
    /\ Dispatch(fe.selectors[fe.i]) = "css"
    /\ \E o \in FindAllCssOutcomes : FindElementSettle("css", o)
    /\ UNCHANGED <<op, rc, ini, sk, so, rt, ck, ca, ff, fs>>

(***************************************************************************)
(* Specification of a call find_element(driver, selectors, timeout) or     *)
(* find_elements(driver, selectors, timeout).                              *)
(***************************************************************************)
\* Selectors with one field, with several fields to which several branches of
\* the chain would apply, and with no usable field.
Selectors ==
    {Sel(TRUE, FALSE, FALSE, FALSE), Sel(TRUE, TRUE, TRUE, TRUE),
     Sel(FALSE, TRUE, TRUE, TRUE), Sel(FALSE, TRUE, FALSE, TRUE),
     Sel(FALSE, TRUE, TRUE, FALSE), Sel(FALSE, TRUE, FALSE, FALSE),
     Sel(FALSE, FALSE, TRUE, TRUE), Sel(FALSE, FALSE, FALSE, FALSE)}

RECURSIVE SeqsUpTo(_, _)
SeqsUpTo(S, n) ==
    IF n = 0 THEN {<<>>}
    ELSE LET shorter == SeqsUpTo(S, n - 1)
         IN  shorter \cup {Append(q, x) : q \in shorter, x \in S}

InitFindElement ==
    /\ op \in [name : {"find_element", "find_elements"},
               selectors : SeqsUpTo(Selectors, MaxSelectors),
               timeout : {Delta, TIMEOUT}]
    /\ pc = "find_element"
    /\ wf = Idle
    /\ fe = FindElementFrame(op.name = "find_elements", op.selectors, op.timeout, "done")
    /\ ff = Idle
    /\ fs = Idle
    /\ so = Idle
    /\ rt = Idle
    /\ ck = Idle
    /\ ca = Idle
    /\ ini = Idle
    /\ sk = Idle
    /\ rc = Idle
    /\ rv = Ret(None)

NextFindElement ==
    \/ FindElementExhausted
    \/ FindElementNoStrategy
    \/ FindElementXPath
    \/ FindElementCallHelper
    \/ FindElementsAllCss
    \/ FindItReturn
    \/ WaitForPoll
    \/ WaitForFinal

SpecFindElement == InitFindElement /\ [][NextFindElement]_vars

FindElementDone == op.name = "find_element" /\ pc = "done"
ResolverDone == op.name \in {"find_element", "find_elements"} /\ pc = "done"

\* A lookup that yielded at least one match.
IsHit(a) == a.out.kind = "ret" /\ Truthy(a.out.val)
AttemptedSelectors == {fe.attempts[k].sel : k \in 1..Len(fe.attempts)}

\* C4: find_element runs the lookups in list order, one Selector after the
\* other without skipping one that has a strategy; only the last lookup run
\* can have matched, and then the call has ended with that lookup's first
\* element as its result; when it ends without a match the result is None.
C4_SelectorsTriedInOrderFirstMatchWins ==
    op.name = "find_element" =>
        /\ \A k \in 1..(Len(fe.attempts) - 1) :
              /\ fe.attempts[k].sel < fe.attempts[k + 1].sel
              /\ ~IsHit(fe.attempts[k])
        /\ \A j \in 1..Len(fe.selectors) :
              (j < fe.i /\ Dispatch(fe.selectors[j]) # "none") => j \in AttemptedSelectors
        /\ \A j \in AttemptedSelectors : j <= fe.i
        /\ (Len(fe.attempts) > 0 /\ IsHit(fe.attempts[Len(fe.attempts)]))
              => /\ pc = "done"
                 /\ fe.i = fe.attempts[Len(fe.attempts)].sel
                 /\ rv.val = Elem(fe.attempts[Len(fe.attempts)].out.m[1])
        /\ (pc = "done" /\ ~(Len(fe.attempts) > 0 /\ IsHit(fe.attempts[Len(fe.attempts)])))
              => (rv = Ret(None) /\ fe.i = Len(fe.selectors) + 1)

\* [A, B]: A's lookup yields nothing, B's yields an element, which is the
\* result.
C4_Witness ==
    /\ FindElementDone
    /\ Len(fe.selectors) = 2
    /\ Len(fe.attempts) = 2
    /\ fe.attempts[1].sel = 1 /\ ~IsHit(fe.attempts[1])
    /\ fe.attempts[2].sel = 2 /\ IsHit(fe.attempts[2])
    /\ rv.val = Elem("e1")

\* The precedence xpath > css+attr > css+text > css alone, as stated.
PrecedenceStrategy(sel) ==
    CASE sel.xpath -> "xpath"
      [] ~sel.xpath /\ sel.css /\ sel.attr -> "attr"
      [] ~sel.xpath /\ sel.css /\ ~sel.attr /\ sel.text -> "text"
      [] ~sel.xpath /\ sel.css /\ ~sel.attr /\ ~sel.text -> "css"
      [] OTHER -> "none"

\* C5: for a Selector to which a strategy applies (xpath or css is set),
\* find_element and find_elements run exactly one lookup, the one the
\* precedence xpath > css+attr > css+text > css alone selects, whatever that
\* lookup yields; no second lookup is run for the same Selector.
C5_OneStrategyPerSelectorByPrecedence ==
    op.name \in {"find_element", "find_elements"} =>
        /\ \A k \in 1..Len(fe.attempts) :
              fe.attempts[k].strat = PrecedenceStrategy(fe.selectors[fe.attempts[k].sel])
        /\ \A k, l \in 1..Len(fe.attempts) :
              fe.attempts[k].sel = fe.attempts[l].sel => k = l
        /\ \A j \in 1..Len(fe.selectors) :
              (j < fe.i /\ (fe.selectors[j].xpath \/ fe.selectors[j].css))
                  => j \in AttemptedSelectors

\* A Selector with all four fields set: only the xpath lookup is run, and
\* when it finds nothing the call ends with None.
C5_Witness ==
    /\ ResolverDone
    /\ fe.selectors = <<Sel(TRUE, TRUE, TRUE, TRUE)>>
    /\ Len(fe.attempts) = 1
    /\ fe.attempts[1].strat = "xpath"
    /\ fe.attempts[1].out = Raise("TimeoutException")
    /\ rv = Ret(None)

\* C6 (as claimed): whatever the strategy, what find_elements returns is the
\* sequence of all the elements that matched.
C6_FindElementsReturnsAllMatches ==
    (op.name = "find_elements" /\ pc = "done" /\ Truthy(rv.val))
        => rv.val.items = rv.m

\* C7: find_element and find_elements end with a returned value, never with
\* a fault: the match, or None when no lookup matched or a lookup raised.
C7_ResolverNeverRaises ==
    ResolverDone =>
        /\ rv.kind = "ret"
        /\ (rv.val = None \/ Truthy(rv.val))
        /\ (\A k \in 1..Len(fe.attempts) : ~IsHit(fe.attempts[k])) => rv = Ret(None)

\* The driver raised an unexpected fault in a lookup; the call returned None.
C7_Witness ==
    /\ ResolverDone
    /\ op.name = "find_element"
    /\ Len(fe.attempts) = 2
    /\ fe.attempts[1].out = Raise("WebDriverException")
    /\ fe.attempts[2].out = Raise("TimeoutException")
    /\ rv = Ret(None)

(***************************************************************************)
(* Strings are sequences of characters.  normalize(t) = t.lower().strip(). *)
(***************************************************************************)
Lower(c) == CASE c = "A" -> "a" [] c = "B" -> "b" [] OTHER -> c

RECURSIVE StripLeft(_)
StripLeft(t) == IF t # <<>> /\ t[1] = " " THEN StripLeft(Tail(t)) ELSE t

RECURSIVE StripRight(_)
StripRight(t) ==
    IF t # <<>> /\ t[Len(t)] = " " THEN StripRight(SubSeq(t, 1, Len(t) - 1)) ELSE t

\* str.strip()
Strip(t) == StripRight(StripLeft(t))

\* normalize(t)
Normalize(t) == Strip([k \in 1..Len(t) |-> Lower(t[k])])

(***************************************************************************)
(* difflib.SequenceMatcher(None, a, b).ratio() = 2.0 * M / T, where T is   *)
(* len(a) + len(b) and M the sum of the sizes of the matching blocks:      *)
(* the longest common block (the one starting earliest in a, then earliest *)
(* in b, among the longest), and recursively the matching blocks to its    *)
(* left and to its right.  Positions are 0-based, ranges half-open.  With  *)
(* sequences shorter than 200 no element is treated as junk.               *)
(***************************************************************************)
MatchingBlocksIn(a, b, alo, ahi, blo, bhi) ==
    {blk \in (alo..(ahi - 1)) \X (blo..(bhi - 1)) \X (1..(ahi - alo)) :
        /\ blk[1] + blk[3] <= ahi
        /\ blk[2] + blk[3] <= bhi
        /\ \A d \in 0..(blk[3] - 1) : a[blk[1] + d + 1] = b[blk[2] + d + 1]}

\* find_longest_match(alo, ahi, blo, bhi)
LongestMatch(a, b, alo, ahi, blo, bhi) ==
    LET blocks == MatchingBlocksIn(a, b, alo, ahi, blo, bhi)
    IN  IF blocks = {} THEN <<alo, blo, 0>>
        ELSE CHOOSE x \in blocks :
                \A y \in blocks :
                    \/ x[3] > y[3]
                    \/ x[3] = y[3] /\ x[1] < y[1]
                    \/ x[3] = y[3] /\ x[1] = y[1] /\ x[2] <= y[2]

\* The sum of the sizes of get_matching_blocks()
RECURSIVE MatchCount(_, _, _, _, _, _)
MatchCount(a, b, alo, ahi, blo, bhi) ==
    LET x == LongestMatch(a, b, alo, ahi, blo, bhi)
        i == x[1]
        j == x[2]
        k == x[3]
    IN  IF k = 0 THEN 0
        ELSE k + (IF alo < i /\ blo < j THEN MatchCount(a, b, alo, i, blo, j) ELSE 0)
               + (IF i + k < ahi /\ j + k < bhi
                  THEN MatchCount(a, b, i + k, ahi, j + k, bhi) ELSE 0)

\* ratio(), as the fraction <<numerator, denominator>>; 1.0 when both
\* sequences are empty.
Ratio(a, b) ==
    IF Len(a) + Len(b) = 0 THEN <<1, 1>>
    ELSE <<2 * MatchCount(a, b, 0, Len(a), 0, Len(b)), Len(a) + Len(b)>>

RatioLess(r, q) == r[1] * q[2] < q[1] * r[2]
RatioEq(r, q) == r[1] * q[2] = q[1] * r[2]

\* sorted(..., key=...): the positions 1..n of the input in ascending order
\* of their keys.  sorted is stable (equal keys keep the input order); for a
\* short list it is a binary insertion sort, each element going behind the
\* elements whose key is not greater.
RECURSIVE InsertByKey(_, _, _)
InsertByKey(sorted, i, keys) ==
    IF sorted = <<>> THEN <<i>>
    ELSE IF RatioLess(keys[i], keys[sorted[Len(sorted)]])
         THEN Append(InsertByKey(SubSeq(sorted, 1, Len(sorted) - 1), i, keys),
                     sorted[Len(sorted)])
         ELSE Append(sorted, i)

RECURSIVE SortPrefix(_, _)
SortPrefix(keys, n) ==
    IF n = 0 THEN <<>> ELSE InsertByKey(SortPrefix(keys, n - 1), n, keys)

StableSortAsc(keys) == SortPrefix(keys, Len(keys))

(***************************************************************************)
(* find_fuzzy(elements, to_string, target), with to_string the identity   *)
(* as in search_and_click_topics.                                          *)
(***************************************************************************)
\* key=lambda op: SequenceMatcher(None, normalize(to_string(op)),
\* normalize(target)).ratio()
RECURSIVE FuzzyKeys(_, _)
FuzzyKeys(elements, target) ==
    IF elements = <<>> THEN <<>>
    ELSE <<Ratio(Normalize(Head(elements)), Normalize(target))>>
            \o FuzzyKeys(Tail(elements), target)

\* The candidates as sorted(elements, key=ratio) orders them; each keeps
\* its position in the input, which tells equal labels apart.
SortedElements(elements, target) ==
    LET order == StableSortAsc(FuzzyKeys(elements, target))
    IN  [r \in 1..Len(order) |-> [pos |-> order[r], label |-> elements[order[r]]]]

\* Mutant: the first of the sorted list is taken instead of the last.
PickLast_First(sorted) ==
    IF Len(sorted) = 0 THEN Raise("IndexError")
    ELSE RetM(PyStr(sorted[1].label), <<sorted[1].pos>>)

\* sorted(...)[-1], IndexError on an empty list.  The outcome carries the
\* input position of the element next to its value.
PickLast(sorted) ==
    IF Len(sorted) = 0 THEN Raise("IndexError")
    ELSE RetM(PyStr(sorted[Len(sorted)].label), <<sorted[Len(sorted)].pos>>)

\* Mutant: find_fuzzy without its try/except.
FindFuzzyExcept_Missing(o) == o

\* `except Exception`: logged, None returned.
FindFuzzyExcept(o) ==
    IF o.kind = "raise" /\ o.exc \in Faults THEN Ret(None) ELSE o

FindFuzzy(elements, target) ==
    FindFuzzyExcept(PickLast(SortedElements(elements, target)))

FindFuzzyFrame(elements, target, caller) ==
    [active |-> TRUE, elements |-> elements, target |-> target, pick |-> 0,
     caller |-> caller]

\* The call of find_fuzzy.  ff.pick is the input position of the element
\* returned (0 when there is none), rv the outcome.
FindFuzzyCall ==
    /\ pc = "find_fuzzy"
    /\ LET o == FindFuzzy(ff.elements, ff.target)
       IN  /\ ff' = [ff EXCEPT !.active = FALSE,
                               !.pick = IF o.m # <<>> THEN o.m[1] ELSE 0]
           /\ rv' = o
    /\ pc' = ff.caller
    /\ UNCHANGED <<op, rc, ini, sk, so, rt, ck, ca, wf, fe, fs>>

(***************************************************************************)
(* Specification of a call find_fuzzy(elements, lambda x: x, target).      *)
(***************************************************************************)
LabelPool == {<<" ">>, <<"a">>, <<"A", " ">>, <<"b">>, <<"a", "b">>, <<"b", "a">>}
Targets == {<<" ">>, <<"a">>, <<"A", "b">>}

InitFindFuzzy ==
    /\ op \in [name : {"find_fuzzy"}, elements : SeqsUpTo(LabelPool, MaxCand),
               target : Targets]
    /\ pc = "find_fuzzy"
    /\ wf = Idle
    /\ fe = Idle
    /\ ff = FindFuzzyFrame(op.elements, op.target, "done")
    /\ fs = Idle
    /\ so = Idle
    /\ rt = Idle
    /\ ck = Idle
    /\ ca = Idle
    /\ ini = Idle
    /\ sk = Idle
    /\ rc = Idle
    /\ rv = Ret(None)

NextFindFuzzy == FindFuzzyCall

SpecFindFuzzy == InitFindFuzzy /\ [][NextFindFuzzy]_vars

FindFuzzyDone == op.name = "find_fuzzy" /\ pc = "done"

\* The positions of the candidates whose similarity ratio to the target is
\* maximal.
BestCands ==
    LET keys == FuzzyKeys(op.elements, op.target)
    IN  {i \in 1..Len(keys) : \A j \in 1..Len(keys) : ~RatioLess(keys[i], keys[j])}

\* C8 (as claimed): on a non-empty candidate sequence find_fuzzy returns a
\* candidate of maximal ratio, the first in input order among those.
C8_MaxRatioFirstOccurrence ==
    (FindFuzzyDone /\ op.elements # <<>>)
        => LET best == BestCands
           IN  ff.pick \in best /\ \A j \in best : ff.pick <= j

\* C8 (amended): on a non-empty candidate sequence find_fuzzy returns a
\* candidate of maximal ratio, the last in input order among those.
C8_MaxRatioLastOccurrence ==
    (FindFuzzyDone /\ op.elements # <<>>)
        => LET best == BestCands
           IN  /\ ff.pick \in best
               /\ \A j \in best : ff.pick >= j
               /\ rv = RetM(PyStr(op.elements[ff.pick]), <<ff.pick>>)

\* "A " and "a" both normalize to the target: the later one is returned.
C8_Witness ==
    /\ FindFuzzyDone
    /\ op.elements = <<<<"A", " ">>, <<"b">>, <<"a">>>>
    /\ op.target = <<"a">>
    /\ BestCands = {1, 3}
    /\ ff.pick = 3
    /\ rv.val = PyStr(<<"a">>)

\* C9: with an empty candidate sequence find_fuzzy returns None; no fault
\* escapes and no candidate is made up.
C9_EmptyCandidatesYieldNone ==
    (FindFuzzyDone /\ op.elements = <<>>) => (rv = Ret(None) /\ ff.pick = 0)

C9_Witness ==
    /\ FindFuzzyDone
    /\ op.elements = <<>>
    /\ op.target = <<"a">>
    /\ rv = Ret(None)

(***************************************************************************)
(* ScraperMethods.fine_search(driver, section, sort_by), with the helpers  *)
(* it calls: extract_names_from_list_items, search_and_click_topics,       *)
(* center_element, click_elm, wait_for_modal, select_option_value.         *)
(* fs.log records, in order, what was done to the page.                    *)
(***************************************************************************)
CssSelector == Sel(FALSE, TRUE, FALSE, FALSE)     \* Selector(css=...)
XPathSelector == Sel(TRUE, FALSE, FALSE, FALSE)   \* Selector(xpath=...)

\* The values fine_search returns.
FsSuccess == PyTuple(<<"True">>)          \* return (True,)
FsTopicAbort == PyTuple(<<"False", "0">>) \* return False, 0

FineSearchFrame(section, sort_by) ==
    [active |-> TRUE, section |-> section, sort_by |-> sort_by, enumerated |-> FALSE,
     names |-> <<>>, topic |-> "-", log |-> <<>>, no_results_match |-> None,
     caught |-> "-"]

\* The except clauses of fine_search: AttributeError and TypeError return
\* None; `except Exception` logs and falls through to the final
\* `return False`.
FineSearchExcept(exc) ==
    IF exc \in {"AttributeError", "TypeError"} THEN Ret(None)
    ELSE IF exc \in Faults THEN Ret(PyFalse)
    ELSE Raise(exc)

\* Mutant: blank labels are kept.
ExtractNames_KeepBlank(spans) == spans

\* names = [span.text for span in spans if span.text.strip()]
RECURSIVE ExtractNames(_)
ExtractNames(spans) ==
    IF spans = <<>> THEN <<>>
    ELSE (IF Strip(Head(spans)) # <<>> THEN <<Head(spans)>> ELSE <<>>)
            \o ExtractNames(Tail(spans))

\* `if len(section.strip()) > 0`
SectionRequested(section) == Len(Strip(section)) > 0

\* `if list_topics:`
TopicsListed(names) == Truthy(PyList(names))

\* `if not element_topic and not topic: return False, 0`
TopicAbort(element_topic, topic) == ~element_topic /\ ~topic

\* click_elm(driver, elm): waits for the element to be clickable and clicks
\* it once; every fault is caught.  What it leaves in the log.
ClickElmLogs(what) == {<<>>, <<"click:" \o what>>}

\* element = find_element(driver, Selector(...)) is called from fine_search
\* or search_and_click_topics with the default timeout.
CallFindElement(selector, caller) ==
    /\ fe' = FindElementFrame(FALSE, <<selector>>, TIMEOUT, caller)
    /\ pc' = "find_element"

\* The frame after fault exc has reached the except clauses of fine_search
\* (each logs it at critical level).
FineSearchCaught(frame, exc) == [frame EXCEPT !.caught = exc]

\* fine_search ends with outcome o.
FineSearchReturn(o) ==
    /\ rv' = o
    /\ pc' = "done"
    /\ fe' = Idle

\* no_results_match = find_element(...)
FineSearchStart ==
    /\ pc = "fine_search"
    /\ CallFindElement(CssSelector, "fs_no_results")
    /\ UNCHANGED <<op, rc, ini, sk, so, rt, ck, ca, wf, ff, fs, rv>>

\* Mutant: the marker is not looked at.
NoResultsMatched_Ignored(no_results_match) == FALSE

\* `if no_results_match:`
NoResultsMatched(no_results_match) == Truthy(no_results_match)

\* `if no_results_match: return False`, else label_search = find_element(...)
FineSearchNoResults ==
    /\ pc = "fs_no_results"
    /\ fs' = [fs EXCEPT !.no_results_match = rv.val]
    /\ IF NoResultsMatched(rv.val)
       THEN FineSearchReturn(Ret(PyFalse))
       ELSE CallFindElement(CssSelector, "fs_see_all") /\ rv' = rv
    /\ UNCHANGED <<op, rc, ini, sk, so, rt, ck, ca, wf, ff>>

\* `if label_search:` center_element, click_elm, wait_for_modal.  Without
\* the control the function falls through to its final `return False`.
\* center_element and wait_for_modal run a script in the page, which can
\* raise.
FineSearchExpand ==
    /\ pc = "fs_see_all"
    /\ IF ~Truthy(rv.val)
       THEN FineSearchReturn(Ret(PyFalse)) /\ fs' = fs
       ELSE \E fault \in {"none", "center", "modal"}, clk \in ClickElmLogs("see_all") :
              IF fault = "center"
              THEN /\ FineSearchReturn(FineSearchExcept("WebDriverException"))
                   /\ fs' = FineSearchCaught(fs, "WebDriverException")
              ELSE IF fault = "modal"
              THEN /\ FineSearchReturn(FineSearchExcept("WebDriverException"))
                   /\ fs' = FineSearchCaught(
                               [fs EXCEPT !.log = @ \o <<"center:see_all">> \o clk],
                               "WebDriverException")
              ELSE /\ fs' = [fs EXCEPT
                              !.log = @ \o <<"center:see_all">> \o clk \o <<"modal">>]
                   /\ pc' = "fs_topics"
                   /\ fe' = Idle
                   /\ rv' = rv
    /\ UNCHANGED <<op, rc, ini, sk, so, rt, ck, ca, wf, ff>>

\* `if len(section.strip()) > 0:` list_topics = extract_names_from_list_items;
\* `if list_topics:` search_and_click_topics, which starts with find_fuzzy.
FineSearchTopics ==
    /\ pc = "fs_topics"
    /\ IF ~SectionRequested(fs.section)
       THEN pc' = "fs_sort" /\ UNCHANGED <<ff, fs, rv>>
       ELSE \/ \E spans \in SeqsUpTo(SpanPool, MaxSpans) :
                 LET names == ExtractNames(spans)
                 IN  /\ fs' = [fs EXCEPT !.enumerated = TRUE, !.names = names]
                     /\ rv' = rv
                     /\ IF TopicsListed(names)
                        THEN /\ ff' = FindFuzzyFrame(names, fs.section, "sct_fuzzy")
                             /\ pc' = "find_fuzzy"
                        ELSE /\ ff' = ff
                             /\ pc' = "fs_sort"
            \/ /\ rv' = FineSearchExcept("WebDriverException")
               /\ pc' = "done"
               /\ fs' = FineSearchCaught(fs, "WebDriverException")
               /\ ff' = ff
    /\ UNCHANGED <<op, rc, ini, sk, so, rt, ck, ca, wf, fe>>

\* search_and_click_topics after find_fuzzy: best_match_name.strip() raises
\* AttributeError on None (not caught there, caught by fine_search); a blank
\* match returns (False, True); else the label's span is looked up.
SearchAndClickMatch ==
    /\ pc = "sct_fuzzy"
    /\ IF rv.val = None
       THEN /\ FineSearchReturn(FineSearchExcept("AttributeError"))
            /\ fs' = FineSearchCaught(fs, "AttributeError")
       ELSE IF ~(Len(Strip(rv.val.items)) > 0)
       THEN /\ fs' = [fs EXCEPT !.topic = "not_found"]
            /\ IF TopicAbort(FALSE, TRUE)
               THEN FineSearchReturn(Ret(FsTopicAbort))
               ELSE pc' = "fs_sort" /\ rv' = rv /\ fe' = fe
       ELSE /\ fs' = [fs EXCEPT !.topic = "matched"]
            /\ CallFindElement(XPathSelector, "sct_span")
            /\ rv' = rv
    /\ UNCHANGED <<op, rc, ini, sk, so, rt, ck, ca, wf, ff>>

\* span.click(): AttributeError when the span was not found (escapes to
\* fine_search), NoSuchElementException is caught and gives (False, False),
\* any other fault escapes to fine_search.
SearchAndClickSpan ==
    /\ pc = "sct_span"
    /\ IF ~Truthy(rv.val)
       THEN /\ FineSearchReturn(FineSearchExcept("AttributeError"))
            /\ fs' = FineSearchCaught(fs, "AttributeError")
       ELSE \E out \in {"ok", "NoSuchElementException", "ElementClickInterceptedException"} :
              /\ fs' = [fs EXCEPT !.log = Append(@, "click:topic"),
                                  !.topic = IF out = "ok" THEN "clicked" ELSE out,
                                  !.caught = IF out \in {"ok", "NoSuchElementException"}
                                             THEN @ ELSE out]
              /\ IF out = "ok"
                 THEN IF TopicAbort(TRUE, TRUE)
                      THEN FineSearchReturn(Ret(FsTopicAbort))
                      ELSE pc' = "fs_sort" /\ rv' = rv /\ fe' = Idle
                 ELSE IF out = "NoSuchElementException"
                 THEN IF TopicAbort(FALSE, FALSE)
                      THEN FineSearchReturn(Ret(FsTopicAbort))
                      ELSE pc' = "fs_sort" /\ rv' = rv /\ fe' = Idle
                 ELSE FineSearchReturn(FineSearchExcept(out))
    /\ UNCHANGED <<op, rc, ini, sk, so, rt, ck, ca, wf, ff>>

\* `if sort_by > 0:` select_sort_by = find_element(...); else `return (True,)`
FineSearchSort ==
    /\ pc = "fs_sort"
    /\ IF fs.sort_by > 0
       THEN CallFindElement(CssSelector, "fs_select") /\ rv' = rv
       ELSE FineSearchReturn(Ret(FsSuccess))
    /\ UNCHANGED <<op, rc, ini, sk, so, rt, ck, ca, wf, ff, fs>>

\* `if select_sort_by:` `if sort_by in [1, 2]:` center_element and
\* select_option_value (which catches every fault), else the warning; then
\* `return (True,)`.
FineSearchSelect ==
    /\ pc = "fs_select"
    /\ IF Truthy(rv.val) /\ fs.sort_by \in {1, 2}
       THEN \E fault \in {"none", "center"} :
              IF fault = "center"
              THEN /\ FineSearchReturn(FineSearchExcept("WebDriverException"))
                   /\ fs' = FineSearchCaught(fs, "WebDriverException")
              ELSE /\ fs' = [fs EXCEPT !.log = @ \o <<"center:select", "select_option_value">>]
                   /\ FineSearchReturn(Ret(FsSuccess))
       ELSE IF Truthy(rv.val)
       THEN /\ fs' = [fs EXCEPT !.log = Append(@, "log:sort_invalid")]
            /\ FineSearchReturn(Ret(FsSuccess))
       ELSE FineSearchReturn(Ret(FsSuccess)) /\ fs' = fs
    /\ UNCHANGED <<op, rc, ini, sk, so, rt, ck, ca, wf, ff>>

(***************************************************************************)
(* Specification of a call fine_search(driver, section, sort_by).  Every   *)
(* Selector fine_search builds has css alone or xpath alone: the probe of  *)
(* find_css yields a non-empty list or raises, so wait_for leaves its loop *)
(* on the first call and its last-chance probe is never reached here.      *)
(***************************************************************************)
Sections == {<<>>, <<" ">>, <<"a">>, <<"b", " ">>}
SortCodes == -1..3

InitFineSearch ==
    /\ op \in [name : {"fine_search"}, section : Sections, sort_by : SortCodes]
    /\ pc = "fine_search"
    /\ wf = Idle
    /\ fe = Idle
    /\ ff = Idle
    /\ fs = FineSearchFrame(op.section, op.sort_by)
    /\ so = Idle
    /\ rt = Idle
    /\ ck = Idle
    /\ ca = Idle
    /\ ini = Idle
    /\ sk = Idle
    /\ rc = Idle
    /\ rv = Ret(None)

NextFineSearch ==
    \/ FineSearchStart
    \/ FineSearchNoResults
    \/ FineSearchExpand
    \/ FineSearchTopics
    \/ SearchAndClickMatch
    \/ SearchAndClickSpan
    \/ FineSearchSort
    \/ FineSearchSelect
    \/ FindFuzzyCall
    \/ FindElementExhausted
    \/ FindElementXPath
    \/ FindElementCallHelper
    \/ FindItReturn
    \/ WaitForPoll

SpecFineSearch == InitFineSearch /\ [][NextFineSearch]_vars

FineSearchDone == op.name = "fine_search" /\ pc = "done"

\* C10 (as claimed): when a non-empty section is requested and the labels
\* were enumerated but none is usable (the list is empty, or the fuzzy
\* match is blank), fine_search does not end with the Success result.
C10_NoUsableTopicNeverSucceeds ==
    (FineSearchDone /\ SectionRequested(op.section) /\ fs.enumerated
        /\ (fs.names = <<>> \/ fs.topic = "not_found"))
    => rv.val # FsSuccess

(***************************************************************************)
(* retry(fun, on_fail, sleep_time, attempts), DontRetryException and its   *)
(* subclass, and Fatal.                                                    *)
(***************************************************************************)
RETRYATTEMPTS == 2

\* class DontRetryException(Exception), class KickedOutofFunnelException(
\* DontRetryException): what `except DontRetryException` catches.
DontRetryFaults == {"DontRetryException", "KickedOutofFunnelException"}

\* Faults of fun that the clause `except Exception` of retry catches.
RetriableFaults == {"ValueError", "ElementClickInterceptedException"}

\* Mutant: the subclass is not recognised.
IsDontRetry_ExactClass(e) == e = "DontRetryException"

\* isinstance(e, DontRetryException)
IsDontRetry(e) == e \in DontRetryFaults

\* Fatal(e, metadata): the fault that wraps e; metadata() reports on e.
Fatal(e) == [kind |-> "raise", val |-> None, exc |-> "Fatal", m |-> <<e>>]
FatalMetadata(f, meta) ==
    [retriable |-> ~IsDontRetry(f.m[1]), exception_name |-> f.m[1],
     exception_message |-> f.m[1], context |-> meta]

\* `for attempt in range(0, attempts)` is entered: the loop variable will
\* take the values 0 .. attempts-1.
RetryFrame(attempts, caller) ==
    [active |-> TRUE, attempts |-> attempts, attempt |-> 0, calls |-> 0,
     on_fail |-> 0, sleeps |-> 0, caller |-> caller]

\* What select.click / best.click can do when select_option retries it.
ClickOutcomes == {Ret(None), Raise("ElementClickInterceptedException")}

\* What the k-th call of fun() yields: scripted for a call of retry itself.
FunOutcomes(k) ==
    IF op.name = "retry" THEN {op.script[k]} ELSE ClickOutcomes

\* Mutant: the budget is never found spent.
RetryBudgetSpent_Never(attempt, attempts) == FALSE

\* Mutant: fun is called once before the budget is looked at.
RetryInRange_AtLeastOnce(attempt, attempts) == attempt < attempts \/ attempt = 0

\* `for attempt in range(0, attempts):` has a next value
RetryInRange(attempt, attempts) == attempt < attempts

\* Mutant: the budget test lets one more attempt through.
RetryBudgetSpent_OffByOne(attempt, attempts) == attempt > attempts

\* `if attempt >= attempts:` after `attempt += 1` in the except clause
RetryBudgetSpent(attempt, attempts) == attempt >= attempts

\* What retry raises when the budget is spent: `raise e`.
RetryRaise(o) == o

\* One iteration of the for loop: `return fun()`; a DontRetryException is
\* raised again at once; any other fault adds one to attempt, calls
\* on_fail(), and either raises it again (budget spent) or sleeps and goes
\* to the next iteration.
RetryAttempt ==
    /\ pc = "retry"
    /\ RetryInRange(rt.attempt, rt.attempts)
    /\ \E o \in FunOutcomes(rt.calls + 1) :
         IF o.kind = "ret" \/ IsDontRetry(o.exc)
         THEN /\ rt' = [rt EXCEPT !.calls = @ + 1, !.active = FALSE]
              /\ rv' = o
              /\ pc' = rt.caller
         ELSE IF RetryBudgetSpent(rt.attempt + 1, rt.attempts)
         THEN /\ rt' = [rt EXCEPT !.calls = @ + 1, !.on_fail = @ + 1, !.active = FALSE]
              /\ rv' = RetryRaise(o)
              /\ pc' = rt.caller
         ELSE /\ rt' = [rt EXCEPT !.calls = @ + 1, !.on_fail = @ + 1, !.sleeps = @ + 1,
                                  !.attempt = @ + 1]
              /\ rv' = rv
              /\ pc' = pc
    /\ UNCHANGED <<op, rc, ini, sk, wf, fe, ff, fs, so, ck, ca>>

\* range(0, attempts) is empty or used up: the function ends without a
\* return statement.
RetryFallThrough ==
    /\ pc = "retry"
    /\ ~RetryInRange(rt.attempt, rt.attempts)
    /\ rt' = [rt EXCEPT !.active = FALSE]
    /\ rv' = Ret(None)
    /\ pc' = rt.caller
    /\ UNCHANGED <<op, rc, ini, sk, wf, fe, ff, fs, so, ck, ca>>

(***************************************************************************)
(* Specification of a call retry(fun, attempts=n).  The script gives what  *)
(* each successive call of fun does.                                       *)
(***************************************************************************)
FunResults ==
    {Ret(PyStr(<<"x">>)), Ret(PyStr(<<"y">>)), Ret(None)}
        \cup {Raise(e) : e \in RetriableFaults \cup DontRetryFaults}
Scripts == [1..MaxAttempts -> FunResults]

InitRetry ==
    /\ op \in [name : {"retry"}, attempts : -1..MaxAttempts, script : Scripts]
    /\ pc = "retry"
    /\ wf = Idle
    /\ fe = Idle
    /\ ff = Idle
    /\ fs = Idle
    /\ so = Idle
    /\ rt = RetryFrame(op.attempts, "done")
    /\ ck = Idle
    /\ ca = Idle
    /\ ini = Idle
    /\ sk = Idle
    /\ rc = Idle
    /\ rv = Ret(None)

NextRetry == RetryAttempt \/ RetryFallThrough

SpecRetry == InitRetry /\ [][NextRetry]_vars

RetryDone == op.name = "retry" /\ pc = "done"

\* The first k-1 calls of fun raise retriable faults.
RetriableBefore(k) ==
    \A j \in 1..(k - 1) : op.script[j].kind = "raise" /\ op.script[j].exc \in RetriableFaults

\* C12: when the k-th call of fun (k within the budget, the calls before it
\* having raised retriable faults) raises DontRetryException or a subclass,
\* retry raises that fault at once: fun has been called k times and no more,
\* and on_fail and sleep ran only for the k-1 earlier faults.
C12_DontRetryPropagatesAtOnce ==
    RetryDone =>
        \A k \in 1..op.attempts :
            (RetriableBefore(k) /\ op.script[k].kind = "raise" /\ op.script[k].exc \in DontRetryFaults)
            => /\ rv = op.script[k]
               /\ rt.calls = k
               /\ rt.on_fail = k - 1
               /\ rt.sleeps = k - 1

C12_Witness ==
    /\ RetryDone
    /\ op.attempts = MaxAttempts
    /\ op.script[1] = Raise("KickedOutofFunnelException")
    /\ rv = Raise("KickedOutofFunnelException")
    /\ rt.calls = 1

\* C13: with attempts = n >= 1, fun is called at most n times; the value of
\* the first call that does not raise is returned and fun is not called
\* again; when all n calls raise retriable faults, the fault of the n-th is
\* raised.
C13_AtMostNCallsFirstSuccessOrLastFault ==
    (RetryDone /\ op.attempts >= 1) =>
        /\ rt.calls <= op.attempts
        /\ \A k \in 1..op.attempts :
              (RetriableBefore(k) /\ op.script[k].kind = "ret")
              => (rv = op.script[k] /\ rt.calls = k)
        /\ RetriableBefore(op.attempts + 1)
              => (rv = op.script[op.attempts] /\ rv.kind = "raise" /\ rt.calls = op.attempts)

C13_Witness ==
    /\ RetryDone
    /\ op.attempts = MaxAttempts
    /\ RetriableBefore(MaxAttempts + 1)
    /\ op.script[1] # op.script[MaxAttempts]
    /\ rt.calls = MaxAttempts
    /\ rv = op.script[MaxAttempts]

\* C14 (as claimed): when the attempt budget is spent, the fault retry
\* raises is a Fatal, the fault that carries the metadata (retriable flag,
\* fault name, message, context).
C14_ExhaustedFaultCarriesMetadata ==
    (RetryDone /\ op.attempts >= 1 /\ RetriableBefore(op.attempts + 1))
    => rv = Fatal(op.script[op.attempts].exc)

(***************************************************************************)
(* select_option(select, option, to_string): the dropdown is opened with a *)
(* retried click, its options are ranked by similarity to the wanted       *)
(* option, and the best one is clicked (retried).                          *)
(***************************************************************************)
\* sorted(..., key=..., reverse=True): the positions in descending order of
\* their keys; equal keys keep the input order.
RECURSIVE InsertByKeyDesc(_, _, _)
InsertByKeyDesc(sorted, i, keys) ==
    IF sorted = <<>> THEN <<i>>
    ELSE IF RatioLess(keys[sorted[Len(sorted)]], keys[i])
         THEN Append(InsertByKeyDesc(SubSeq(sorted, 1, Len(sorted) - 1), i, keys),
                     sorted[Len(sorted)])
         ELSE Append(sorted, i)

RECURSIVE SortPrefixDesc(_, _)
SortPrefixDesc(keys, n) ==
    IF n = 0 THEN <<>> ELSE InsertByKeyDesc(SortPrefixDesc(keys, n - 1), n, keys)

StableSortDesc(keys) == SortPrefixDesc(keys, Len(keys))

\* possible_options: the positions of the options, best first.  The key is
\* that of find_fuzzy: ratio of normalize(to_string(op)) and
\* normalize(str(option)).
PossibleOptions(elements, target) == StableSortDesc(FuzzyKeys(elements, target))

\* Mutant: the last of the descending list is taken.
BestOption_Last(possible_options) == possible_options[Len(possible_options)]

\* best = possible_options[0]
BestOption(possible_options) == possible_options[1]

\* Mutant: select_option without its handlers.
SelectOptionExcept_Missing(o) == o

\* The except clauses of select_option: each logs and returns False.
SelectOptionExcept(o) ==
    IF o.kind = "raise" /\ o.exc \in Faults \cup RetriableFaults \cup DontRetryFaults
    THEN Ret(PyFalse)
    ELSE o

SelectOptionFrame(select, elements, target, caller) ==
    [active |-> TRUE, select |-> select, elements |-> elements, target |-> target,
     pick |-> 0, clicks |-> <<>>, caller |-> caller]

SelectOptionReturn(o) ==
    /\ rv' = o
    /\ pc' = so.caller
    /\ rt' = Idle

\* `if not select: return False`, else retry(select.click)
SelectOptionStart ==
    /\ pc = "select_option"
    /\ IF ~so.select
       THEN SelectOptionReturn(Ret(PyFalse))
       ELSE /\ rt' = RetryFrame(RETRYATTEMPTS, "so_opened")
            /\ pc' = "retry"
            /\ rv' = rv
    /\ UNCHANGED <<op, rc, ini, sk, wf, fe, ff, fs, so, ck, ca>>

\* After the opening click: sleep(0.5), the options are read and sorted;
\* `if possible_options:` the best is clicked with retry, else False.
SelectOptionSort ==
    /\ pc = "so_opened"
    /\ IF rv.kind = "raise"
       THEN SelectOptionReturn(SelectOptionExcept(rv)) /\ so' = so
       ELSE \/ LET possible_options == PossibleOptions(so.elements, so.target)
               IN  IF Truthy(PyList(possible_options))
                   THEN /\ so' = [so EXCEPT !.pick = BestOption(possible_options),
                                            !.clicks = Append(@, "select")]
                        /\ rt' = RetryFrame(RETRYATTEMPTS, "so_clicked")
                        /\ pc' = "retry"
                        /\ rv' = rv
                   ELSE /\ so' = [so EXCEPT !.clicks = Append(@, "select")]
                        /\ SelectOptionReturn(Ret(PyFalse))
            \/ /\ so' = [so EXCEPT !.clicks = Append(@, "select")]
               /\ SelectOptionReturn(SelectOptionExcept(Raise("WebDriverException")))
    /\ UNCHANGED <<op, rc, ini, sk, wf, fe, ff, fs, ck, ca>>

\* After retry(best.click): `return True`, or False from the handlers.
SelectOptionFinish ==
    /\ pc = "so_clicked"
    /\ IF rv.kind = "raise"
       THEN SelectOptionReturn(SelectOptionExcept(rv)) /\ so' = so
       ELSE /\ so' = [so EXCEPT !.clicks = Append(@, "option")]
            /\ SelectOptionReturn(Ret(PyTrue))
    /\ UNCHANGED <<op, rc, ini, sk, wf, fe, ff, fs, ck, ca>>

(***************************************************************************)
(* Specification of a call select_option(select, option, to_string) on a   *)
(* dropdown whose options show the labels op.elements.  retry runs with    *)
(* its default budget RETRYATTEMPTS >= 1, so its loop is always entered.   *)
(***************************************************************************)
InitSelectOption ==
    /\ op \in [name : {"select_option"}, select : BOOLEAN,
               elements : SeqsUpTo(LabelPool, MaxCand), target : Targets]
    /\ pc = "select_option"
    /\ wf = Idle
    /\ fe = Idle
    /\ ff = Idle
    /\ fs = Idle
    /\ so = SelectOptionFrame(op.select, op.elements, op.target, "done")
    /\ rt = Idle
    /\ ck = Idle
    /\ ca = Idle
    /\ ini = Idle
    /\ sk = Idle
    /\ rc = Idle
    /\ rv = Ret(None)

NextSelectOption ==
    \/ SelectOptionStart
    \/ SelectOptionSort
    \/ SelectOptionFinish
    \/ RetryAttempt

SpecSelectOption == InitSelectOption /\ [][NextSelectOption]_vars

\* select_option has chosen its best option.
SelectOptionChose == op.name = "select_option" /\ so.pick > 0

\* C11: whenever exactly one candidate attains the maximal ratio, the option
\* select_option chooses (descending sort, index 0) is the candidate
\* find_fuzzy returns (ascending sort, last) for the same candidates and
\* target.
C11_SelectOptionAndFindFuzzyAgreeOnUniqueMax ==
    (SelectOptionChose /\ Cardinality(BestCands) = 1)
    => /\ so.pick \in BestCands
       /\ <<so.pick>> = FindFuzzy(op.elements, op.target).m

C11_Witness ==
    /\ SelectOptionChose
    /\ pc = "done"
    /\ rv = Ret(PyTrue)
    /\ op.elements = <<<<"b">>, <<"A", " ">>, <<"a", "b">>>>
    /\ op.target = <<"a">>
    /\ BestCands = {2}
    /\ so.pick = 2

(***************************************************************************)
(* click_elm(driver, elm, timeout): waits through find_it / wait_for for   *)
(* the element to be clickable, then clicks it.                            *)
(***************************************************************************)
\* What element_to_click.click() can do: WebElement.click() has no return
\* value.
ElementClick ==
    {Ret(None)} \cup
    {Raise(e) : e \in {"ElementClickInterceptedException", "ElementNotInteractableException",
                      "WebDriverException", "AttributeError"}}

\* Mutant: only the faults listed by name are caught.
ClickElmExcept_ListedOnly(o) ==
    IF o.kind = "raise" /\ o.exc \in ListedFaults
    THEN Ret(None)
    ELSE o

\* The except clauses of click_elm: the listed faults, WebDriverException,
\* Exception; each logs at critical level and returns None.
ClickElmExcept(o) ==
    IF o.kind = "raise" /\ o.exc \in Faults THEN Ret(None) ELSE o

\* found is the truth of element_to_click, calls counts the calls of
\* click(), performed tells that one went through, logged is the fault the
\* handlers of click_elm logged at critical level.
ClickElmFrame(elm, timeout, caller) ==
    [active |-> TRUE, elm |-> elm, timeout |-> timeout, found |-> FALSE, calls |-> 0,
     performed |-> FALSE, logged |-> "-", caller |-> caller]

\* element_to_click = find_it(driver, elements=get, timeout=timeout)
ClickElmStart ==
    /\ pc = "click_elm"
    /\ wf' = WaitForFrame(ck.timeout, "ck_found")
    /\ pc' = "wait_for"
    /\ UNCHANGED <<op, rc, ini, sk, fe, ff, fs, so, rt, ck, ca, rv>>

\* `if element_to_click: return element_to_click.click()` else
\* `return None`; a fault of click() goes to the except clauses.
ClickElmClick ==
    /\ pc = "ck_found"
    /\ IF Truthy(rv.val)
       THEN \E o \in ElementClick :
              /\ ck' = [ck EXCEPT !.found = TRUE, !.calls = @ + 1,
                                  !.performed = (o.kind = "ret"),
                                  !.logged = o.exc, !.active = FALSE]
              /\ rv' = ClickElmExcept(o)
       ELSE /\ ck' = [ck EXCEPT !.active = FALSE]
            /\ rv' = Ret(None)
    /\ pc' = ck.caller
    /\ wf' = Idle
    /\ UNCHANGED <<op, rc, ini, sk, fe, ff, fs, so, rt, ca>>

(***************************************************************************)
(* Specification of a call click_elm(driver, elm, timeout).                *)
(***************************************************************************)
InitClickElm ==
    /\ op \in [name : {"click_elm"}, elm : {"none", "e1", "e2"}, timeout : Timeouts]
    /\ pc = "click_elm"
    /\ wf = Idle
    /\ fe = Idle
    /\ ff = Idle
    /\ fs = Idle
    /\ so = Idle
    /\ rt = Idle
    /\ ck = ClickElmFrame(op.elm, op.timeout, "done")
    /\ ca = Idle
    /\ ini = Idle
    /\ sk = Idle
    /\ rc = Idle
    /\ rv = Ret(None)

NextClickElm == ClickElmStart \/ WaitForPoll \/ WaitForFinal \/ ClickElmClick

SpecClickElm == InitClickElm /\ [][NextClickElm]_vars

ClickElmDone == op.name = "click_elm" /\ pc = "done"

C16_ReturnTellsClickFromNoClick ==
    (ClickElmDone /\ ck.performed) => rv.val # None

(***************************************************************************)
(* ScraperMethods.collect_articles(driver, results).  The site shows the   *)
(* same kinds of rows on each of its pages; a row is named by its page and *)
(* its place on the page.  ca.page is the page the browser is on.          *)
(***************************************************************************)
\* What a result row <li> holds: "ok" has title, timestamp ('Month Day,
\* Year') and description and a .jpg image; "relative" is the same with a
\* timestamp 'N hours ago'; "nopic" has no image; "noscroll" is a row that
\* the scrollIntoView script fails on; "missing" lacks one of the three
\* elements; "baddate" has a timestamp that neither format matches;
\* "relcaps" has the timestamp 'N Hours ago'.
RowKinds == {"ok", "relative", "nopic", "noscroll", "missing", "baddate", "relcaps"}
BrokenKinds == {"missing", "baddate", "relcaps"}

\* The kind of row i of page p: the broken rows of op.rows show from page
\* op.broken_from on, the pages before have sound rows in their place.
RowKind(p, i) ==
    IF p < op.broken_from /\ op.rows[i] \in BrokenKinds THEN "ok" ELSE op.rows[i]

\* The title of the article made from row i of page p.
RowId(p, i) == "p" \o ToString(p) \o "r" \o ToString(i)

\* Mutant: the lookups of a row's elements have no handlers of their own.
RowLookupExcept_Escapes(exc) == Raise(exc)

\* The except clauses around the three li.find_element calls: each logs
\* and returns None.
RowLookupExcept(exc) ==
    IF exc \in Faults THEN Ret(None) ELSE Raise(exc)

\* center_element(driver, li) and find_elm_picture(li, ...): the scroll
\* script can raise; find_elm_picture returns the src of the image, or None
\* (its handlers only log).
Thumbnail(kind) ==
    IF kind = "noscroll" THEN Raise("JavascriptException")
    ELSE IF kind = "nopic" THEN Ret(None)
    ELSE Ret(PyStr(<<"jpg">>))

\* Mutant: the try around the thumbnail has no handlers.
ThumbnailExcept_Missing(o) == o

\* The except clauses around the thumbnail: each only logs, photo stays
\* unset and the row goes on.
ThumbnailExcept(o) ==
    IF o.kind = "raise" /\ o.exc \in Faults THEN Ret(None) ELSE o

\* Article(): the defaults of the dataclass.
DefaultPicture == <<>>
DefaultDate == <<>>

\* `if not photo is None: article.picture_filename = photo`
PictureFilename(photo) == IF photo.val # None THEN photo.val.items ELSE DefaultPicture

\* A timestamp text is a sequence of words separated by white space.  "N"
\* is a run of digits.
TimeWords == {"N", "hours", "Hours", "minute", "ago", "Month", "D,", "Y"}

\* time.text.strip() of a row.
TimestampText(kind) ==
    IF kind = "relative" THEN <<"N", "hours", "ago">>
    ELSE IF kind = "relcaps" THEN <<"N", "Hours", "ago">>
    ELSE IF kind = "baddate" THEN <<"Y">>
    ELSE <<"Month", "D,", "Y">>

\* The text that group 2 of the pattern, (hour|minute), captures in a word
\* that `(hour|minute)s?` matches under re.IGNORECASE: the letters as they
\* stand in the text.  "-" when the word does not match.
UnitGroup(w) ==
    CASE w = "hours" -> "hour"
      [] w = "Hours" -> "Hour"
      [] w = "minute" -> "minute"
      [] OTHER -> "-"

\* re.search(r"(\d+)\s+(hour|minute)s?\s+ago", text, re.IGNORECASE): the
\* place of the leftmost match, 0 when there is none.
PatternSearch(text) ==
    LET hits == {i \in 1..(Len(text) - 2) :
                    /\ text[i] = "N"
                    /\ UnitGroup(text[i + 1]) # "-"
                    /\ text[i + 2] = "ago"}
    IN  IF hits = {} THEN 0 ELSE CHOOSE i \in hits : \A j \in hits : i <= j

\* `"hour" in unit`, `"minute" in unit`: a test on the letters as captured.
UnitIs(name, unit) == name = unit

\* parse_time_ago(text): None when the pattern is not found; now minus N
\* hours or minutes by the unit captured; ValueError for a unit that holds
\* neither "hour" nor "minute".
ParseTimeAgo(text) ==
    LET at == PatternSearch(text)
    IN  IF at = 0 THEN Ret(None)
        ELSE LET unit == UnitGroup(text[at + 1])
             IN  IF UnitIs("hour", unit) THEN Ret(PyStr(<<"now-N">>))
                 ELSE IF UnitIs("minute", unit) THEN Ret(PyStr(<<"now-Nmin">>))
                 ELSE Raise("ValueError")

\* datetime.strptime(text, "%B %d, %Y")
Strptime(text) ==
    IF text = <<"Month", "D,", "Y">> THEN Ret(PyStr(<<"date">>)) ELSE Raise("ValueError")

\* Mutant: a relative timestamp leaves the date at its default.
ResolveDate_RelativeUnset(text) ==
    LET parse == ParseTimeAgo(text)
    IN  IF parse.kind = "raise" THEN parse
        ELSE IF parse.val # None THEN Ret(PyStr(DefaultDate)) ELSE Strptime(text)

\* parse = parse_time_ago(time_str); `if not parse == None:` article.date =
\* parse, else article.date = datetime.strptime(...)
ResolveDate(text) ==
    LET parse == ParseTimeAgo(text)
    IN  IF parse.kind = "raise" \/ parse.val # None THEN parse ELSE Strptime(text)

\* The article of a row whose thumbnail lookup gave photo and whose
\* timestamp resolved to date.
Article(title, photo, date) ==
    [title |-> title, picture_filename |-> PictureFilename(photo), date |-> date.val.items]

\* The article that a sound row i of page p gives.
RowArticle(p, i) ==
    Article(RowId(p, i), ThumbnailExcept(Thumbnail(RowKind(p, i))),
            ResolveDate(TimestampText(RowKind(p, i))))

\* Not yet assigned (button_next before the first lookup).
Unbound == [tag |-> "unbound", items |-> <<>>]

\* list_articles = [], more_results = True, cont = 1
CollectFrame(results) ==
    [active |-> TRUE, results |-> results, list_articles |-> <<>>, more_results |-> TRUE,
     cont |-> 1, page |-> 1, rows |-> <<>>, i |-> 0, li |-> <<>>, reads |-> 0, iters |-> 0,
     button_next |-> Unbound, clicks |-> <<>>, caught |-> "-"]

\* The except clauses of collect_articles (and those around the lookups of
\* a row's elements): each logs and returns None.
CollectExcept(exc) ==
    IF exc \in Faults \cup {"ValueError"} THEN Ret(None) ELSE Raise(exc)

\* Mutant: the count test compares with `<`.
CountReached_Less(results, cont) == results < cont

\* `if results == cont:` after list_articles.append(article)
CountReached(results, cont) == results = cont

\* Mutant: the test after the click compares with `<=`.
CountPassed_OrEqual(results, cont) == results <= cont

\* Mutant: the test after the click takes 0 for "no limit".
CountPassed_ZeroUnlimited(results, cont) == 0 < results /\ results < cont

\* `if results < cont: more_results = False` after the click on next
CountPassed(results, cont) == results < cont

\* collect_articles ends with outcome o.
CollectReturn(o) ==
    /\ rv' = o
    /\ pc' = "done"

\* `while more_results:` the container of the results is looked up; when
\* more_results is false, `return list_articles`.
CollectLoop ==
    /\ pc = "collect_articles"
    /\ IF ca.more_results
       THEN /\ ca.iters < MaxIters
            /\ ca' = [ca EXCEPT !.iters = @ + 1]
            /\ CallFindElement(CssSelector, "ca_container")
            /\ rv' = rv
       ELSE /\ CollectReturn(Ret(PyList(ca.list_articles)))
            /\ UNCHANGED <<ca, fe>>
    /\ UNCHANGED <<op, rc, ini, sk, wf, ff, fs, so, rt, ck>>

\* `if search_results_section:` wait_for_modal, li_search_results =
\* find_all_css(...) (None after a fault); `if li_search_results:` the for
\* loop starts.  In every other case the while loop goes round again.
CollectContainer ==
    /\ pc = "ca_container"
    /\ fe' = Idle
    /\ IF ~Truthy(rv.val)
       THEN pc' = "collect_articles" /\ UNCHANGED <<ca, rv>>
       ELSE \/ /\ CollectReturn(CollectExcept("WebDriverException"))
               /\ ca' = [ca EXCEPT !.caught = "WebDriverException"]
            \/ \E li_search_results \in {None, PyList([i \in 1..Len(op.rows) |-> i])} :
                 /\ rv' = rv
                 /\ IF Truthy(li_search_results)
                    THEN /\ ca' = [ca EXCEPT !.rows = li_search_results.items, !.i = 1]
                         /\ pc' = "ca_rows"
                    ELSE /\ ca' = ca
                         /\ pc' = "collect_articles"
    /\ UNCHANGED <<op, rc, ini, sk, wf, ff, fs, so, rt, ck>>

\* One round of `for li in li_search_results:`, li being <<page, place>>.
\* A row without title, timestamp or description ends the call with None;
\* the thumbnail is looked for (faults only logged); a date that does not
\* parse ends the call through the outer handlers; else the article is
\* appended, and the count test either breaks out of the loop or adds one
\* to cont.  After the loop (ended or broken) button_next is looked up.
CollectRow ==
    /\ pc = "ca_rows"
    /\ IF ca.i > Len(ca.rows)
       THEN /\ CallFindElement(CssSelector, "ca_next")
            /\ UNCHANGED <<ca, rv>>
       ELSE LET kind == RowKind(ca.page, ca.rows[ca.i])
                read == [ca EXCEPT !.reads = @ + 1, !.li = <<ca.page, ca.rows[ca.i]>>]
                photo == ThumbnailExcept(Thumbnail(kind))
                date == ResolveDate(TimestampText(kind))
            IN  IF kind = "missing"
                THEN /\ CollectReturn(RowLookupExcept("NoSuchElementException"))
                     /\ ca' = [read EXCEPT !.caught = "NoSuchElementException"]
                     /\ fe' = fe
                ELSE IF photo.kind = "raise" \/ date.kind = "raise"
                THEN /\ CollectReturn(CollectExcept(IF photo.kind = "raise"
                                                    THEN photo.exc ELSE date.exc))
                     /\ ca' = [read EXCEPT !.caught = IF photo.kind = "raise"
                                                      THEN photo.exc ELSE date.exc]
                     /\ fe' = fe
                ELSE LET article == Article(RowId(ca.page, ca.rows[ca.i]), photo, date)
                         added == [read EXCEPT !.list_articles = Append(@, article)]
                     IN  IF CountReached(ca.results, ca.cont)
                         THEN /\ ca' = [added EXCEPT !.more_results = FALSE]
                              /\ CallFindElement(CssSelector, "ca_next")
                              /\ rv' = rv
                         ELSE /\ ca' = [added EXCEPT !.cont = @ + 1, !.i = @ + 1]
                              /\ UNCHANGED <<pc, fe, rv>>
    /\ UNCHANGED <<op, rc, ini, sk, wf, ff, fs, so, rt, ck>>

\* `if button_next:` center_element (a script, which can raise) and
\* click_elm; without the control the while loop goes round again.
CollectNext ==
    /\ pc = "ca_next"
    /\ fe' = Idle
    /\ IF Truthy(rv.val)
       THEN \/ /\ CollectReturn(CollectExcept("WebDriverException"))
               /\ ca' = [ca EXCEPT !.button_next = rv.val, !.caught = "WebDriverException"]
               /\ ck' = ck
            \/ /\ ca' = [ca EXCEPT !.button_next = rv.val,
                                   !.clicks = Append(@, Len(ca.list_articles))]
               /\ ck' = ClickElmFrame("e1", TIMEOUT, "ca_clicked")
               /\ pc' = "click_elm"
               /\ rv' = rv
       ELSE /\ ca' = [ca EXCEPT !.button_next = rv.val]
            /\ pc' = "collect_articles"
            /\ UNCHANGED <<ck, rv>>
    /\ UNCHANGED <<op, rc, ini, sk, wf, ff, fs, so, rt>>

\* After click_elm: a click that went through shows the next page;
\* `if results < cont: more_results = False`.
CollectClicked ==
    /\ pc = "ca_clicked"
    /\ ck.performed => ca.page < MaxPages
    /\ ca' = [ca EXCEPT !.page = IF ck.performed THEN @ + 1 ELSE @,
                        !.more_results = IF CountPassed(ca.results, ca.cont)
                                         THEN FALSE ELSE @]
    /\ ck' = Idle
    /\ pc' = "collect_articles"
    /\ UNCHANGED <<op, rc, ini, sk, wf, fe, ff, fs, so, rt, rv>>

(***************************************************************************)
(* Specification of a call collect_articles(driver, results).  Every       *)
(* lookup uses a css Selector and click_elm the default timeout, so        *)
(* wait_for always ends inside its loop.                                   *)
(***************************************************************************)
InitCollect ==
    /\ op \in [name : {"collect_articles"}, results : 0..MaxResults,
               rows : SeqsUpTo(RowKinds, MaxRows), broken_from : 1..MaxPages]
    /\ op.broken_from > 1 => \E i \in 1..Len(op.rows) : op.rows[i] \in BrokenKinds
    /\ pc = "collect_articles"
    /\ wf = Idle
    /\ fe = Idle
    /\ ff = Idle
    /\ fs = Idle
    /\ so = Idle
    /\ rt = Idle
    /\ ck = Idle
    /\ ca = CollectFrame(op.results)
    /\ ini = Idle
    /\ sk = Idle
    /\ rc = Idle
    /\ rv = Ret(None)

NextCollect ==
    \/ CollectLoop
    \/ CollectContainer
    \/ CollectRow
    \/ CollectNext
    \/ CollectClicked
    \/ FindElementExhausted
    \/ FindElementCallHelper
    \/ FindItReturn
    \/ ClickElmStart
    \/ ClickElmClick
    \/ WaitForPoll

SpecCollect == InitCollect /\ [][NextCollect]_vars

CollectDone == op.name = "collect_articles" /\ pc = "done"

\* C17 (as claimed): when the lookup of the results container finds
\* nothing, the next step of collect_articles ends the call with the abort
\* outcome None; the loop is not entered again.
C17_NoContainerAborts ==
    [][(op.name = "collect_articles" /\ pc = "ca_container" /\ ~Truthy(rv.val))
        => (pc' = "done" /\ rv' = Ret(None))]_vars

\* C18 (as claimed): once the lookup of the next-page control on the
\* current page has found nothing, collect_articles does nothing but return
\* the articles accumulated so far: it starts no further lookup and reads
\* no row again.
C18_NoNextControlStopsWithArticles ==
    (op.name = "collect_articles" /\ ca.button_next = None)
    => /\ pc \in {"collect_articles", "done"}
       /\ pc = "collect_articles" => ~ca.more_results
       /\ pc = "done" => rv = Ret(PyList(ca.list_articles))

\* C19 (as claimed): with results >= 1, each time the next-page control is
\* clicked fewer than `results` articles have been accumulated.
C19_NextClickedOnlyWhileShort ==
    (op.name = "collect_articles" /\ op.results >= 1)
    => \A c \in 1..Len(ca.clicks) : ca.clicks[c] < op.results

\* The first page renders at least k rows and its first k are well formed.
FirstRowsWellFormed(k) ==
    /\ Len(op.rows) >= k
    /\ \A i \in 1..k : RowKind(1, i) \notin BrokenKinds

\* The articles of the first k rows of the first page, in rendered order.
FirstArticles(k) == [i \in 1..k |-> RowArticle(1, i)]

\* C20: with results = k >= 1 and a first page whose first k rows are well
\* formed, collect_articles reads k rows and no more (it reads none once k
\* articles are accumulated), what it has accumulated is at every moment
\* the first rows of page one in rendered order, and the list it returns is
\* exactly the first k rows (None is returned instead only when the driver
\* raises while the panel settles or the next-page control is centred).
C20_StopsAtKAndReturnsFirstK ==
    (op.name = "collect_articles" /\ op.results >= 1 /\ FirstRowsWellFormed(op.results))
    => /\ ca.reads <= op.results
       /\ ca.list_articles = FirstArticles(Len(ca.list_articles))
       /\ Len(ca.list_articles) = op.results => (pc # "ca_rows" /\ ~ca.more_results)
       /\ (pc = "done" /\ rv.val # None) => rv = Ret(PyList(FirstArticles(op.results)))
       /\ (pc = "done" /\ rv.val = None) => ca.reads < op.results \/ Truthy(ca.button_next)

C20_Witness ==
    /\ CollectDone
    /\ op.results = 2
    /\ op.rows = <<"ok", "ok">>
    /\ ca.reads = 2
    /\ ca.button_next = None
    /\ rv = Ret(PyList(<<RowArticle(1, 1), RowArticle(1, 2)>>))

\* The row the for loop of collect_articles has read last is of a kind in K.
LastRowIs(K) ==
    /\ op.name = "collect_articles"
    /\ ca.li # <<>>
    /\ RowKind(ca.li[1], ca.li[2]) \in K

\* C21: as soon as a row without title, timestamp or description is read,
\* collect_articles has ended with None, whatever it had accumulated (on
\* this page or on earlier ones); no row is read after it.
C21_MissingElementAbortsAll ==
    LastRowIs({"missing"}) => (pc = "done" /\ rv = Ret(None))

C21_Witness ==
    /\ LastRowIs({"missing"})
    /\ ca.li[1] = 2
    /\ Len(ca.list_articles) >= 1
    /\ ca.list_articles[1].title = RowId(1, 1)
    /\ pc = "done"
    /\ rv = Ret(None)

\* C22: a row whose image is not found, or that the scroll script fails on,
\* does not end the collection: once it is read its article is the last of
\* list_articles, with the picture field at its (empty) default, and a list
\* returned right after holds it.
C22_ThumbnailFailureKeepsArticle ==
    LastRowIs({"nopic", "noscroll"})
    => /\ Len(ca.list_articles) >= 1
       /\ LET article == ca.list_articles[Len(ca.list_articles)]
          IN  /\ article.title = RowId(ca.li[1], ca.li[2])
              /\ article.picture_filename = DefaultPicture
       /\ (pc = "done" /\ rv.val # None) => rv = Ret(PyList(ca.list_articles))

C22_Witness ==
    /\ LastRowIs({"noscroll"})
    /\ CollectDone
    /\ rv.val.tag = "list"
    /\ Len(rv.val.items) = 2
    /\ rv.val.items[2].picture_filename = DefaultPicture
    /\ rv.val.items[1].picture_filename # DefaultPicture

\* C23: every article of a list that collect_articles returns has a date
\* that was resolved (an absolute date read from the row, or the wall clock
\* minus N units), never the default empty date.
C23_ReturnedArticlesHaveResolvedDate ==
    (CollectDone /\ rv.val.tag = "list")
    => \A a \in 1..Len(rv.val.items) :
          /\ rv.val.items[a].date # DefaultDate
          /\ rv.val.items[a].date \in {<<"date">>, <<"now-N">>}

C23_Witness ==
    /\ CollectDone
    /\ rv.val.tag = "list"
    /\ Len(rv.val.items) = 2
    /\ rv.val.items[1].date = <<"now-N">>
    /\ rv.val.items[2].date = <<"date">>

\* C27: when the no-results marker was found, fine_search returns False
\* and has done nothing to the page: no centring, no click on the see-all
\* control or a topic label, no sort selection.
C27_NoResultsReturnsFalseUntouched ==
    (FineSearchDone /\ Truthy(fs.no_results_match))
    => (rv = Ret(PyFalse) /\ fs.log = <<>> /\ fs.topic = "-")

C27_Witness ==
    /\ FineSearchDone
    /\ fs.no_results_match = Elem("e1")
    /\ op.sort_by = 1
    /\ SectionRequested(op.section)
    /\ rv = Ret(PyFalse)

\* The entries of the log of fine_search.
FineSearchLogged == {fs.log[i] : i \in 1..Len(fs.log)}

\* C28 (as claimed): when fine_search ends with Success for a sort_by
\* outside {0, 1, 2}, it has logged the invalid-sort warning and selected
\* no sort option.
C28_InvalidSortWarnsAndSucceeds ==
    (FineSearchDone /\ op.sort_by \notin {0, 1, 2} /\ rv = Ret(FsSuccess))
    => ("log:sort_invalid" \in FineSearchLogged
        /\ "select_option_value" \notin FineSearchLogged)

\* C29 (as claimed): in fine_search every click on an element comes after
\* a center_element call on that element.
C29_EveryClickIsCentredFirst ==
    op.name = "fine_search" =>
        \A what \in {"see_all", "topic", "select"} :
            \A i \in 1..Len(fs.log) :
                fs.log[i] = "click:" \o what
                => \E j \in 1..(i - 1) : fs.log[j] = "center:" \o what


(***************************************************************************)
(* center_element(driver, elm) and slow_send_keys(el, text,                *)
(* unfocus_on_complete).                                                   *)
(***************************************************************************)
MaxText == 2            \* longest text typed into a field

Chars == {"a", "b"}
Texts == SeqsUpTo(Chars, MaxText)
KeysENTER == "ENTER"    \* Keys.ENTER, one character
KeysTAB == "TAB"        \* Keys.TAB, one character

\* center_element: `if elm:` runs scrollIntoView in the page, a script that
\* can raise; `return elm`.  No try statement surrounds the script.
CenterElement(elm) ==
    IF Truthy(elm) THEN {Ret(elm), Raise("JavascriptException")} ELSE {Ret(elm)}

\* What el.click() and el.send_keys(c) can do.
ElementKeys ==
    {Ret(None)} \cup
    {Raise(e) : e \in {"ElementNotInteractableException", "WebDriverException"}}

\* What el.clear() can do.
ElementClear == {Ret(None), Raise("WebDriverException")}

\* Mutant: no handler around el.clear().
SwallowClear_Missing(o) == o

\* `try: el.clear()` `except: pass`
SwallowClear(o) == Ret(None)

\* sent is the sequence of keys delivered, one per send_keys call; clicked
\* tells that el.click() went through, cleared how el.clear() ended, fault
\* the fault of click() or send_keys() that left the function, sleeps the
\* number of pauses taken.
SlowSendKeysFrame(el, text, unfocus_on_complete, caller) ==
    [active |-> TRUE, el |-> el, text |-> text,
     unfocus_on_complete |-> unfocus_on_complete, i |-> 1, sent |-> <<>>,
     clicked |-> FALSE, cleared |-> "-", fault |-> "-", sleeps |-> 0,
     caller |-> caller]

\* slow_send_keys ends with outcome o: nothing catches a fault of click()
\* or send_keys() (the frame records it in fault), and the function has no
\* return statement.
SlowSendKeysReturn(frame, o) ==
    /\ sk' = [frame EXCEPT !.active = FALSE]
    /\ rv' = o
    /\ pc' = sk.caller

\* `if el:` el.click(), then el.clear() inside try / except: pass.
SlowSendKeysStart ==
    /\ pc = "slow_send_keys"
    /\ IF ~Truthy(sk.el)
       THEN SlowSendKeysReturn(sk, Ret(None))
       ELSE \E c \in ElementKeys :
              IF c.kind = "raise"
              THEN SlowSendKeysReturn([sk EXCEPT !.fault = c.exc], c)
              ELSE \E cl \in ElementClear :
                     LET frame == [sk EXCEPT !.clicked = TRUE,
                                             !.cleared = IF cl.kind = "raise"
                                                         THEN "failed" ELSE "ok"]
                     IN  IF SwallowClear(cl).kind = "raise"
                         THEN SlowSendKeysReturn(frame, SwallowClear(cl))
                         ELSE /\ sk' = frame
                              /\ pc' = "sk_send"
                              /\ rv' = rv
    /\ UNCHANGED <<op, rc, wf, fe, ff, fs, so, rt, ck, ca, ini>>

\* One round of `for c in text:` el.send_keys(c); sleep(...)
SlowSendKeysChar ==
    /\ pc = "sk_send"
    /\ sk.i <= Len(sk.text)
    /\ \E o \in ElementKeys :
         IF o.kind = "raise"
         THEN SlowSendKeysReturn([sk EXCEPT !.fault = o.exc], o)
         ELSE /\ sk' = [sk EXCEPT !.sent = Append(@, sk.text[sk.i]), !.i = @ + 1,
                                  !.sleeps = @ + 1]
              /\ UNCHANGED <<pc, rv>>
    /\ UNCHANGED <<op, rc, wf, fe, ff, fs, so, rt, ck, ca, ini>>

\* After the loop: `if unfocus_on_complete: el.send_keys(Keys.TAB)`, and
\* the function ends.
SlowSendKeysFinish ==
    /\ pc = "sk_send"
    /\ sk.i > Len(sk.text)
    /\ IF sk.unfocus_on_complete
       THEN \E o \in ElementKeys :
              IF o.kind = "raise"
              THEN SlowSendKeysReturn([sk EXCEPT !.fault = o.exc], o)
              ELSE SlowSendKeysReturn([sk EXCEPT !.sent = Append(@, KeysTAB)], Ret(None))
       ELSE SlowSendKeysReturn(sk, Ret(None))
    /\ UNCHANGED <<op, rc, wf, fe, ff, fs, so, rt, ck, ca, ini>>

InitSlowSendKeys ==
    /\ op \in [name : {"slow_send_keys"}, el : {None, Elem("e1")}, text : Texts,
               unfocus_on_complete : BOOLEAN]
    /\ pc = "slow_send_keys"
    /\ wf = Idle
    /\ fe = Idle
    /\ ff = Idle
    /\ fs = Idle
    /\ so = Idle
    /\ rt = Idle
    /\ ck = Idle
    /\ ca = Idle
    /\ ini = Idle
    /\ sk = SlowSendKeysFrame(op.el, op.text, op.unfocus_on_complete, "done")
    /\ rc = Idle
    /\ rv = Ret(None)

(***************************************************************************)
(* ScraperMethods.inicial_search(driver, phrase).                          *)
(***************************************************************************)
\* log is the sequence of calls made on the two controls.
InicialSearchFrame(phrase) ==
    [active |-> TRUE, phrase |-> phrase, search |-> None, search_field |-> None,
     log |-> <<>>, caught |-> "-"]

\* Mutant: only the faults named in the first two clauses are caught.
InicialSearchExcept_NamedOnly(exc) ==
    IF exc \in {"AttributeError", "TypeError"} THEN Ret(None) ELSE Raise(exc)

\* The except clauses of inicial_search: AttributeError, TypeError,
\* Exception; each logs at critical level and returns None.
InicialSearchExcept(exc) ==
    IF exc \in Faults THEN Ret(None) ELSE Raise(exc)

\* Mutant: the function falls off its end.
InicialSearchNotFound_None == Ret(None)

\* The last statement, reached when `if search:` or `if search_field:`
\* fails: `return False`.
InicialSearchNotFound == Ret(PyFalse)

\* inicial_search ends with outcome o.
InicialSearchReturn(o) ==
    /\ rv' = o
    /\ pc' = "done"

\* search = find_element(driver.driver, Selector(css=...))
InicialSearchStart ==
    /\ pc = "inicial_search"
    /\ CallFindElement(CssSelector, "ini_search")
    /\ ini' = [ini EXCEPT !.log = Append(@, "find:search")]
    /\ UNCHANGED <<op, rc, wf, ff, fs, so, rt, ck, ca, sk, rv>>

\* `if search:` center_element(search), click_elm(search); otherwise
\* `return False`.
InicialSearchTrigger ==
    /\ pc = "ini_search"
    /\ fe' = Idle
    /\ IF Truthy(rv.val)
       THEN \E c \in CenterElement(rv.val) :
              IF c.kind = "raise"
              THEN /\ ini' = [ini EXCEPT !.search = rv.val, !.caught = c.exc,
                                         !.log = Append(@, "center:search")]
                   /\ InicialSearchReturn(InicialSearchExcept(c.exc))
                   /\ ck' = ck
              ELSE /\ ini' = [ini EXCEPT !.search = rv.val,
                                         !.log = @ \o <<"center:search", "click:search">>]
                   /\ ck' = ClickElmFrame(rv.val.items[1], TIMEOUT, "ini_clicked")
                   /\ pc' = "click_elm"
                   /\ rv' = rv
       ELSE /\ ini' = [ini EXCEPT !.search = rv.val]
            /\ InicialSearchReturn(InicialSearchNotFound)
            /\ ck' = ck
    /\ UNCHANGED <<op, rc, wf, ff, fs, so, rt, ca, sk>>

\* search_field = find_element(driver.driver, Selector(css=...)), whatever
\* click_elm returned.
InicialSearchField ==
    /\ pc = "ini_clicked"
    /\ CallFindElement(CssSelector, "ini_field")
    /\ ini' = [ini EXCEPT !.log = Append(@, "find:field")]
    /\ UNCHANGED <<op, rc, wf, ff, fs, so, rt, ck, ca, sk, rv>>

\* `if search_field:` center_element(search_field),
\* slow_send_keys(search_field, phrase + Keys.ENTER, False); otherwise
\* `return False`.
InicialSearchType ==
    /\ pc = "ini_field"
    /\ fe' = Idle
    /\ IF Truthy(rv.val)
       THEN \E c \in CenterElement(rv.val) :
              IF c.kind = "raise"
              THEN /\ ini' = [ini EXCEPT !.search_field = rv.val, !.caught = c.exc,
                                         !.log = Append(@, "center:field")]
                   /\ InicialSearchReturn(InicialSearchExcept(c.exc))
                   /\ sk' = sk
              ELSE /\ ini' = [ini EXCEPT !.search_field = rv.val,
                                         !.log = @ \o <<"center:field", "type:field">>]
                   /\ sk' = SlowSendKeysFrame(rv.val, Append(ini.phrase, KeysENTER),
                                              FALSE, "ini_typed")
                   /\ pc' = "slow_send_keys"
                   /\ rv' = rv
       ELSE /\ ini' = [ini EXCEPT !.search_field = rv.val]
            /\ InicialSearchReturn(InicialSearchNotFound)
            /\ sk' = sk
    /\ UNCHANGED <<op, rc, wf, ff, fs, so, rt, ck, ca>>

\* After slow_send_keys: `return True`; a fault it raised goes to the
\* except clauses.
InicialSearchTyped ==
    /\ pc = "ini_typed"
    /\ IF rv.kind = "raise"
       THEN /\ ini' = [ini EXCEPT !.caught = rv.exc]
            /\ InicialSearchReturn(InicialSearchExcept(rv.exc))
       ELSE /\ ini' = ini
            /\ InicialSearchReturn(Ret(PyTrue))
    /\ UNCHANGED <<op, rc, wf, fe, ff, fs, so, rt, ck, ca, sk>>

InitInicialSearch ==
    /\ op \in [name : {"inicial_search"}, phrase : Texts]
    /\ pc = "inicial_search"
    /\ wf = Idle
    /\ fe = Idle
    /\ ff = Idle
    /\ fs = Idle
    /\ so = Idle
    /\ rt = Idle
    /\ ck = Idle
    /\ ca = Idle
    /\ ini = InicialSearchFrame(op.phrase)
    /\ sk = Idle
    /\ rc = Idle
    /\ rv = Ret(None)

NextInicialSearch ==
    \/ InicialSearchStart
    \/ InicialSearchTrigger
    \/ InicialSearchField
    \/ InicialSearchType
    \/ InicialSearchTyped
    \/ FindElementExhausted
    \/ FindElementCallHelper
    \/ FindItReturn
    \/ ClickElmStart
    \/ ClickElmClick
    \/ WaitForPoll
    \/ SlowSendKeysStart
    \/ SlowSendKeysChar
    \/ SlowSendKeysFinish

(***************************************************************************)
(* Specification of typing: a call slow_send_keys(el, text,                *)
(* unfocus_on_complete), or a call inicial_search(driver, phrase), which   *)
(* types the phrase through slow_send_keys.  Lookups use css Selectors and *)
(* the default timeout, so wait_for always ends inside its loop.           *)
(***************************************************************************)
InitTyping == InitSlowSendKeys \/ InitInicialSearch

NextTyping == NextInicialSearch

SpecTyping == InitTyping /\ [][NextTyping]_vars

SlowSendKeysDone == op.name = "slow_send_keys" /\ pc = "done"
InicialSearchDone == op.name = "inicial_search" /\ pc = "done"


(***************************************************************************)
(* Specification of the three steps of the protocol: a call of             *)
(* inicial_search, of fine_search or of collect_articles.                  *)
(***************************************************************************)
InitProtocol == InitInicialSearch \/ InitFineSearch \/ InitCollect

NextProtocol == NextInicialSearch \/ NextFineSearch \/ NextCollect

SpecProtocol == InitProtocol /\ [][NextProtocol]_vars

\* The fault the except clauses of the step under analysis caught ("-" when
\* none reached them).
StepCaught ==
    CASE op.name = "inicial_search" -> ini.caught
      [] op.name = "fine_search" -> fs.caught
      [] op.name = "collect_articles" -> ca.caught
      [] OTHER -> "-"

C25_SlowSendKeysNeverRaises ==
    SlowSendKeysDone => rv.kind = "ret"

\* The calls inicial_search has logged.
InicialSearchLogged == {ini.log[i] : i \in 1..Len(ini.log)}

\* C26: inicial_search returns False when the trigger was not found, or
\* was found and the input field was not, and has then typed nothing; it
\* types only with both controls found, and looks the input field up only
\* after click_elm was called on the trigger.
C26_TypesOnlyWithBothControls ==
    op.name = "inicial_search" =>
        /\ (pc = "done" /\ (~Truthy(ini.search)
                            \/ ("find:field" \in InicialSearchLogged
                                /\ ~Truthy(ini.search_field))))
           => (rv = Ret(PyFalse) /\ ~sk.active /\ "type:field" \notin InicialSearchLogged
               /\ sk = Idle)
        /\ sk # Idle => (Truthy(ini.search) /\ Truthy(ini.search_field))
        /\ \A i \in 1..Len(ini.log) :
              ini.log[i] = "find:field"
              => \E j \in 1..(i - 1) : ini.log[j] = "click:search"

C26_Witness ==
    /\ InicialSearchDone
    /\ op.phrase = <<"a", "b">>
    /\ ini.search = Elem("e1")
    /\ ini.log = <<"find:search", "center:search", "click:search", "find:field">>
    /\ ini.search_field = None
    /\ sk = Idle
    /\ rc = Idle
    /\ rv = Ret(PyFalse)

\* The keys slow_send_keys is to deliver.
SlowSendKeysDue ==
    sk.text \o (IF sk.unfocus_on_complete THEN <<KeysTAB>> ELSE <<>>)

\* C30: the keys delivered are at every moment a prefix of text followed by
\* TAB iff unfocus_on_complete, one key per send; when click() and every
\* send_keys() went through, all of them were delivered, also when clear()
\* failed; and when inicial_search returns True the keys delivered are the
\* phrase followed by ENTER and nothing else.
C30_KeysInOrderTabIffUnfocus ==
    /\ sk # Idle
       => /\ Len(sk.sent) <= Len(SlowSendKeysDue)
          /\ sk.sent = SubSeq(SlowSendKeysDue, 1, Len(sk.sent))
          /\ sk.sleeps = Cardinality({k \in 1..Len(sk.sent) : k <= Len(sk.text)})
          /\ (pc = "done" /\ sk.clicked /\ sk.fault = "-")
             => (sk.sent = SlowSendKeysDue /\ rv.kind = "ret")
    /\ (InicialSearchDone /\ rv = Ret(PyTrue))
       => (sk # Idle /\ sk.sent = Append(op.phrase, KeysENTER))

C30_Witness ==
    /\ SlowSendKeysDone
    /\ sk.cleared = "failed"
    /\ op.text = <<"b", "a">>
    /\ op.unfocus_on_complete
    /\ sk.sent = <<"b", "a", KeysTAB>>
    /\ rv = Ret(None)


(***************************************************************************)
(* Specification of the resolution of one timestamp text, as               *)
(* collect_articles does it for a row: parse_time_ago, then strptime.      *)
(***************************************************************************)
MaxWords == 3           \* most words of a timestamp text

TimeTexts == SeqsUpTo(TimeWords, MaxWords)

\* parse = parse_time_ago(time_str) and the if / else that follows it.
ResolveDateCall ==
    /\ pc = "resolve_date"
    /\ rv' = ResolveDate(op.text)
    /\ pc' = "done"
    /\ UNCHANGED <<op, rc, wf, fe, ff, fs, so, rt, ck, ca, ini, sk>>

InitResolveDate ==
    /\ op \in [name : {"resolve_date"}, text : TimeTexts]
    /\ pc = "resolve_date"
    /\ wf = Idle
    /\ fe = Idle
    /\ ff = Idle
    /\ fs = Idle
    /\ so = Idle
    /\ rt = Idle
    /\ ck = Idle
    /\ ca = Idle
    /\ ini = Idle
    /\ sk = Idle
    /\ rc = Idle
    /\ rv = Ret(None)

NextResolveDate == ResolveDateCall

SpecResolveDate == InitResolveDate /\ [][NextResolveDate]_vars

ResolveDateDone == op.name = "resolve_date" /\ pc = "done"

\* C31 (as claimed): a text in which the pattern 'N hour(s)/minute(s) ago'
\* is found, whatever the case of its letters, resolves without a fault to
\* the wall clock minus N hours or minutes; any other text resolves as
\* strptime resolves it.
C31_RelativePatternFirstNoError ==
    ResolveDateDone
    => IF PatternSearch(op.text) # 0
       THEN rv \in {Ret(PyStr(<<"now-N">>)), Ret(PyStr(<<"now-Nmin">>))}
       ELSE rv = Strptime(op.text)


\* C32: with results >= 1, a list that collect_articles returns holds
\* exactly `results` articles.
C32_ReturnedListHasExactlyResults ==
    (CollectDone /\ op.results >= 1 /\ rv.val.tag = "list")
    => Len(rv.val.items) = op.results

C32_Witness ==
    /\ CollectDone
    /\ op.results = 3
    /\ op.rows = <<"ok", "nopic">>
    /\ ca.page = 2
    /\ ca.clicks = <<2, 3>>
    /\ rv.val.tag = "list"
    /\ Len(rv.val.items) = 3

\* C33: with results = 0 the count test never ends the for loop; the call
\* returns a list only after one call of click_elm on a next-page control
\* that was found, and when the first round of the while loop found it the
\* list is the rows of the first page, each once; after a round that found
\* no next-page control the while loop goes on.
C33_ZeroResultsEndsOnlyByNextControl ==
    (op.name = "collect_articles" /\ op.results = 0)
    => /\ pc = "ca_rows" => ca.more_results
       /\ (pc = "collect_articles" /\ ~ca.more_results) => Len(ca.clicks) = 1
       /\ (pc = "collect_articles" /\ Len(ca.clicks) >= 1) => ~ca.more_results
       /\ (pc = "collect_articles" /\ ca.iters >= 1 /\ ca.button_next = None)
          => ca.more_results
       /\ (pc = "done" /\ rv.val.tag = "list")
          => /\ Truthy(ca.button_next)
             /\ Len(ca.clicks) = 1
             /\ ca.iters = 1 => /\ rv.val.items = FirstArticles(Len(op.rows))
                                /\ ca.clicks = <<Len(op.rows)>>

C33_Witness ==
    /\ CollectDone
    /\ op.results = 0
    /\ op.rows = <<"relative", "ok">>
    /\ ca.iters = 1
    /\ ca.clicks = <<2>>
    /\ rv = Ret(PyList(<<RowArticle(1, 1), RowArticle(1, 2)>>))


(***************************************************************************)
(* Specification of topic matching: a call find_fuzzy(elements,            *)
(* lambda x: x, target), or a call of fine_search, whose                   *)
(* search_and_click_topics hands the labels of the filter menu to          *)
(* find_fuzzy.                                                             *)
(***************************************************************************)
InitTopics == InitFindFuzzy \/ InitFineSearch

NextTopics == NextFineSearch

SpecTopics == InitTopics /\ [][NextTopics]_vars

C35_CallerTimeoutBoundsOnlyXPath ==
    op.name = "find_element" =>
        /\ (pc \in {"wait_for", "find_it"} /\ wf # Idle) => wf.timeout = TIMEOUT
        /\ \A k \in 1..Len(fe.attempts) :
              fe.attempts[k].wait = IF fe.attempts[k].strat = "xpath"
                                    THEN op.timeout ELSE TIMEOUT

C35_Witness ==
    /\ FindElementDone
    /\ op.timeout = Delta
    /\ Len(fe.attempts) = 2
    /\ fe.attempts[1].strat = "xpath" /\ fe.attempts[1].wait = Delta
    /\ fe.attempts[2].strat = "text" /\ fe.attempts[2].wait = TIMEOUT


\* A lookup that raised a fault other than TimeoutException and
\* NoSuchElementException.
IsUnexpectedFault(a) ==
    a.out.kind = "raise" /\ a.out.exc \notin {"TimeoutException", "NoSuchElementException"}

\* C36: after a lookup that raised an unexpected fault find_element has
\* gone on to the next Selector (and returns what a later lookup matches),
\* whereas find_elements has ended with None, that lookup being its last.
C36_UnexpectedFaultContinuesOrStops ==
    op.name \in {"find_element", "find_elements"} =>
        \A k \in 1..Len(fe.attempts) :
            IsUnexpectedFault(fe.attempts[k])
            => IF fe.plural
               THEN /\ k = Len(fe.attempts)
                    /\ fe.i = fe.attempts[k].sel
                    /\ pc = "done"
                    /\ rv = Ret(None)
               ELSE /\ fe.i > fe.attempts[k].sel
                    /\ (pc = "done" /\ k < Len(fe.attempts)
                        /\ IsHit(fe.attempts[Len(fe.attempts)]))
                       => rv.val = Elem(fe.attempts[Len(fe.attempts)].out.m[1])

C36_Witness ==
    /\ FindElementDone
    /\ Len(fe.selectors) = 2
    /\ Len(fe.attempts) = 2
    /\ IsUnexpectedFault(fe.attempts[1])
    /\ fe.attempts[2].sel = 2
    /\ IsHit(fe.attempts[2])
    /\ rv.val = Elem("e1")


\* The calls of fun made so far that raised a retriable fault.
RetriableFailures ==
    {j \in 1..rt.calls : op.script[j].kind = "raise" /\ op.script[j].exc \in RetriableFaults}

\* C37: on_fail has been called once for each retriable failure of fun, and
\* sleep once for each of them but the one that ended the call: a call that
\* uses up n >= 1 attempts ends with n calls of on_fail and n-1 sleeps, and
\* no sleep follows a success.
C37_OnFailEachFailureSleepBetween ==
    op.name = "retry" =>
        /\ rt.on_fail = Cardinality(RetriableFailures)
        /\ rt.sleeps = IF pc = "done" /\ rv.kind = "raise" /\ rv.exc \in RetriableFaults
                       THEN rt.on_fail - 1 ELSE rt.on_fail
        /\ (pc = "done" /\ op.attempts >= 1 /\ RetriableBefore(op.attempts + 1))
           => (rt.on_fail = op.attempts /\ rt.sleeps = op.attempts - 1)
        /\ (pc = "done" /\ rv.kind = "ret" /\ rt.calls >= 1) => rt.sleeps = rt.calls - 1

C37_Witness ==
    /\ RetryDone
    /\ op.attempts = 3
    /\ RetriableBefore(4)
    /\ rt.calls = 3
    /\ rt.on_fail = 3
    /\ rt.sleeps = 2
    /\ rv.kind = "raise"

\* C38: with attempts <= 0 retry ends without calling fun (nor on_fail, nor
\* sleep) and returns None; a call with a budget whose first call of fun
\* returns None ends with the same result.
C38_NoBudgetReturnsNoneWithoutCalling ==
    RetryDone =>
        /\ op.attempts <= 0
           => (rt.calls = 0 /\ rt.on_fail = 0 /\ rt.sleeps = 0 /\ rv = Ret(None))
        /\ (op.attempts >= 1 /\ op.script[1] = Ret(None)) => rv = Ret(None)

C38_Witness ==
    /\ RetryDone
    /\ op.attempts = -1
    /\ op.script[1] = Ret(PyStr(<<"x">>))
    /\ rt.calls = 0
    /\ rv = Ret(None)


(***************************************************************************)
(* ProducerMethods.read_csv_create_work_item(debug).  The CSV file is the  *)
(* sequence of its rows, each a sequence of cells; the first row is the    *)
(* header.                                                                 *)
(***************************************************************************)
MaxLines == 3           \* most rows of the CSV file, the header included

CsvRows ==
    {<<"p", "s", "1", "2">>, <<"q", "s", "0", "0">>, <<"p", "s", "x", "2">>, <<"p", "s">>}
CsvFiles == SeqsUpTo(CsvRows, MaxLines)

\* int(cell)
IntOf(cell) ==
    CASE cell = "0" -> Ret(PyStr(<<0>>))
      [] cell = "1" -> Ret(PyStr(<<1>>))
      [] cell = "2" -> Ret(PyStr(<<2>>))
      [] OTHER -> Raise("ValueError")

\* Payload(phrase_test=row[0], section=row[1], sort_by=int(row[2]),
\* results=int(row[3])): IndexError for a row that is too short, ValueError
\* for a cell that is not a number.
MakePayload(row) ==
    IF Len(row) < 4 THEN Raise("IndexError")
    ELSE IF IntOf(row[3]).kind = "raise" THEN IntOf(row[3])
    ELSE IF IntOf(row[4]).kind = "raise" THEN IntOf(row[4])
    ELSE Ret([tag |-> "payload",
              items |-> <<row[1], row[2], IntOf(row[3]).val.items[1],
                          IntOf(row[4]).val.items[1]>>])

\* workitems.outputs.create(payload={...}): the work item created, or a
\* fault of the work-item library.
CreateWorkItem(payload) ==
    {Ret([tag |-> "workitem", items |-> payload.items]), Raise("RuntimeError")}

\* The except clauses: FileNotFoundError, ValueError, csv.Error, Exception;
\* each logs and returns None.
ReadCsvExcept(o) == IF o.kind = "raise" THEN Ret(None) ELSE o

\* Mutant: the header is not taken off the reader.
SkipHeader_None(rows) == rows

\* header = next(reader): the rows left for the for loop.
SkipHeader(rows) == Tail(rows)

\* left is what the reader has not yet given out, reads the number of rows
\* it has given out, payloads the Payload objects built, created the work
\* items created.
ReadCsvFrame ==
    [active |-> TRUE, left |-> <<>>, reads |-> 0, payloads |-> <<>>, created |-> <<>>,
     caught |-> "-"]

\* read_csv_create_work_item ends with outcome o.
ReadCsvReturn(frame, o) ==
    /\ rc' = [frame EXCEPT !.active = FALSE, !.caught = o.exc]
    /\ rv' = ReadCsvExcept(o)
    /\ pc' = "done"

\* `if os.path.exists(csv_file_path):` the file is opened and the header
\* read (StopIteration on an empty file); otherwise None is returned.
ReadCsvOpen ==
    /\ pc = "read_csv"
    /\ IF ~op.exists
       THEN ReadCsvReturn(rc, Ret(None))
       ELSE IF op.rows = <<>>
       THEN ReadCsvReturn(rc, Raise("StopIteration"))
       ELSE /\ rc' = [rc EXCEPT !.left = SkipHeader(op.rows), !.reads = 1]
            /\ pc' = "rc_rows"
            /\ rv' = rv
    /\ UNCHANGED <<op, wf, fe, ff, fs, so, rt, ck, ca, ini, sk>>

\* `for row in reader:` the body builds the Payload and returns: the work
\* item created when debug is false, the Payload otherwise.  With no row
\* left the function falls off its end.
ReadCsvRow ==
    /\ pc = "rc_rows"
    /\ IF rc.left = <<>>
       THEN ReadCsvReturn(rc, Ret(None))
       ELSE LET row == Head(rc.left)
                read == [rc EXCEPT !.left = Tail(@), !.reads = @ + 1]
                payload == MakePayload(row)
            IN  IF payload.kind = "raise"
                THEN ReadCsvReturn(read, payload)
                ELSE LET built == [read EXCEPT !.payloads = Append(@, payload.val)]
                     IN  IF ~op.debug
                         THEN \E o \in CreateWorkItem(payload.val) :
                                IF o.kind = "raise"
                                THEN ReadCsvReturn(built, o)
                                ELSE ReadCsvReturn(
                                        [built EXCEPT !.created = Append(@, o.val)], o)
                         ELSE ReadCsvReturn(built, payload)
    /\ UNCHANGED <<op, wf, fe, ff, fs, so, rt, ck, ca, ini, sk>>

InitReadCsv ==
    /\ op \in [name : {"read_csv_create_work_item"}, debug : BOOLEAN, exists : BOOLEAN,
               rows : CsvFiles]
    /\ pc = "read_csv"
    /\ wf = Idle
    /\ fe = Idle
    /\ ff = Idle
    /\ fs = Idle
    /\ so = Idle
    /\ rt = Idle
    /\ ck = Idle
    /\ ca = Idle
    /\ ini = Idle
    /\ sk = Idle
    /\ rc = ReadCsvFrame
    /\ rv = Ret(None)

NextReadCsv == ReadCsvOpen \/ ReadCsvRow

SpecReadCsv == InitReadCsv /\ [][NextReadCsv]_vars

ReadCsvDone == op.name = "read_csv_create_work_item" /\ pc = "done"

\* C39: a call builds at most one Payload and creates at most one work item
\* (none in debug mode), out of the second row of the file, the first after
\* the header; no row after that one is read; what the call returns is that
\* work item or Payload, or None.
C39_AtMostOneItemFromFirstDataRow ==
    op.name = "read_csv_create_work_item" =>
        /\ Len(rc.payloads) <= 1
        /\ Len(rc.created) <= Len(rc.payloads)
        /\ rc.reads <= 2
        /\ op.debug => rc.created = <<>>
        /\ rc.payloads # <<>>
           => (Len(op.rows) >= 2 /\ Ret(rc.payloads[1]) = MakePayload(op.rows[2]))
        /\ rc.created # <<>> => rc.created[1].items = rc.payloads[1].items
        /\ pc = "done"
           => \/ rv = Ret(None) /\ rc.created = <<>>
              \/ ~op.debug /\ rc.created # <<>> /\ rv = Ret(rc.created[1])
              \/ op.debug /\ rc.payloads # <<>> /\ rv = Ret(rc.payloads[1])

C39_Witness ==
    /\ ReadCsvDone
    /\ ~op.debug
    /\ op.rows = <<<<"p", "s">>, <<"q", "s", "0", "0">>, <<"p", "s", "1", "2">>>>
    /\ rc.reads = 2
    /\ rc.left = <<<<"p", "s", "1", "2">>>>
    /\ rc.created = <<[tag |-> "workitem", items |-> <<"q", "s", 0, 0>>]>>
    /\ rv = Ret(rc.created[1])

====
